---- MODULE Spec2Model ----
(***************************************************************************)
(* neuroncore: dense tensors with broadcasting arithmetic and a            *)
(* computational graph with reverse-mode gradient accumulation.            *)
(*                                                                         *)
(* Rust indices are 0-based; a Rust slice s is the TLA+ sequence whose     *)
(* element s[i] is written s[i + 1].  f32 values are modelled by integers  *)
(* (sums and products of small integers are exact in f32).  Option<T> is   *)
(* the set of at most one T.                                               *)
(***************************************************************************)
EXTENDS Integers, Sequences, FiniteSets, TLC

(***************************************************************************)
(* error.rs: ComputeError.  Message strings are not modelled.              *)
(***************************************************************************)
NoError ==
    [type |-> "None", expected |-> 0, got |-> 0, dim |-> 0, shape1 |-> 0, shape2 |-> 0]

ShapeMismatch(e, g) ==
    [type |-> "ShapeMismatch", expected |-> e, got |-> g, dim |-> 0, shape1 |-> 0, shape2 |-> 0]

DimensionError ==
    [type |-> "DimensionError", expected |-> 0, got |-> 0, dim |-> 0, shape1 |-> 0, shape2 |-> 0]

InputCountError(e, g) ==
    [type |-> "InputCountError", expected |-> e, got |-> g, dim |-> 0, shape1 |-> 0, shape2 |-> 0]

BroadcastError(d, s1, s2) ==
    [type |-> "BroadcastError", expected |-> 0, got |-> 0, dim |-> d, shape1 |-> s1, shape2 |-> s2]

InvalidOperation ==
    [type |-> "InvalidOperation", expected |-> 0, got |-> 0, dim |-> 0, shape1 |-> 0, shape2 |-> 0]

IndexError ==
    [type |-> "IndexError", expected |-> 0, got |-> 0, dim |-> 0, shape1 |-> 0, shape2 |-> 0]

(***************************************************************************)
(* Result<T, ComputeError>.  st is "ok" or "err"; two further outcomes are *)
(* not values of the Rust type but ways a call ends without returning:     *)
(* "panic" (a failed expect) and "overflow" (unbounded recursion).         *)
(***************************************************************************)
Ok(v) == [st |-> "ok", err |-> NoError, val |-> v]

Err(e) == [st |-> "err", err |-> e, val |-> <<>>]

Panic == [st |-> "panic", err |-> NoError, val |-> <<>>]

Overflow == [st |-> "overflow", err |-> NoError, val |-> <<>>]

(***************************************************************************)
(* tensor.rs                                                               *)
(***************************************************************************)
RECURSIVE product(_)
product(s) == IF s = <<>> THEN 1 ELSE Head(s) * product(Tail(s))

RECURSIVE stride_at(_, _)
stride_at(shape, i) ==
    IF i >= Len(shape) - 1 THEN 1 ELSE stride_at(shape, i + 1) * shape[i + 2]

compute_strides(shape) == [i \in 1..Len(shape) |-> stride_at(shape, i - 1)]

Tensor_new_length_first(data, shape) ==
    IF Len(data) # product(shape) THEN Err(ShapeMismatch(product(shape), Len(data)))
    ELSE IF shape = <<>> THEN Err(DimensionError)
    ELSE Ok([data |-> data, shape |-> shape, strides |-> compute_strides(shape)])

Tensor_new(data, shape) ==
    IF shape = <<>> THEN Err(DimensionError)
    ELSE IF Len(data) # product(shape) THEN Err(ShapeMismatch(product(shape), Len(data)))
    ELSE Ok([data |-> data, shape |-> shape, strides |-> compute_strides(shape)])

zeros(shape) == Tensor_new([i \in 1..product(shape) |-> 0], shape)

ones(shape) == Tensor_new([i \in 1..product(shape) |-> 1], shape)

zeros_like(other) == zeros(other.shape)

ones_like(other) == ones(other.shape).val

unravel_index_static(flat, shape) ==
    LET strides == compute_strides(shape)
        rem[i \in 0..Len(shape)] == IF i = 0 THEN flat ELSE rem[i - 1] % strides[i]
    IN  [i \in 1..Len(shape) |-> rem[i - 1] \div strides[i]]

RECURSIVE sum_seq(_)
sum_seq(s) == IF s = <<>> THEN 0 ELSE Head(s) + sum_seq(Tail(s))

ravel_index_static(indices, shape) ==
    LET strides == compute_strides(shape)
        n == IF Len(indices) < Len(strides) THEN Len(indices) ELSE Len(strides)
    IN  sum_seq([i \in 1..n |-> indices[i] * strides[i]])

Max(a, b) == IF a >= b THEN a ELSE b

Min(S) == CHOOSE x \in S : \A y \in S : x <= y

(* One aligned dimension of an operand: its size, or 1 left of its rank. *)
aligned_dim(s, i, max_dims) ==
    IF i >= max_dims - Len(s) THEN s[i - (max_dims - Len(s)) + 1] ELSE 1

broadcast_shapes_rightmost(a, b) ==
    LET max_dims == Max(Len(a), Len(b))
        a_i(i) == aligned_dim(a, i, max_dims)
        b_i(i) == aligned_dim(b, i, max_dims)
        clash(x, y) == x # y /\ x # 1 /\ y # 1
        out_i(x, y) == IF x = y THEN x ELSE IF x = 1 THEN y ELSE x
        fail(i) == Err(BroadcastError(i, a_i(i), b_i(i)))
        from(bad) ==
            IF bad # {} THEN fail(CHOOSE i \in bad : \A j \in bad : j <= i)
            ELSE Ok([k \in 1..max_dims |-> out_i(a_i(k - 1), b_i(k - 1))])
    IN  from({i \in 0..(max_dims - 1) : clash(a_i(i), b_i(i))})

broadcast_shapes(a, b) ==
    LET max_dims == Max(Len(a), Len(b))
        a_i(i) == aligned_dim(a, i, max_dims)
        b_i(i) == aligned_dim(b, i, max_dims)
        clash(x, y) == x # y /\ x # 1 /\ y # 1
        out_i(x, y) == IF x = y THEN x ELSE IF x = 1 THEN y ELSE x
        fail(i) == Err(BroadcastError(i, a_i(i), b_i(i)))
        from(bad) ==
            IF bad # {} THEN fail(Min(bad))
            ELSE Ok([k \in 1..max_dims |-> out_i(a_i(k - 1), b_i(k - 1))])
    IN  from({i \in 0..(max_dims - 1) : clash(a_i(i), b_i(i))})

broadcasted_flat_index_unclamped(t, out_indices, out_shape) ==
    IF Len(out_indices) # Len(out_shape) THEN Err(IndexError)
    ELSE
      LET offset == IF Len(out_shape) >= Len(t.shape) THEN Len(out_shape) - Len(t.shape) ELSE 0
          t_dim(d) == IF d >= offset THEN t.shape[d - offset + 1] ELSE 1
          t_stride(d) == IF d >= offset THEN t.strides[d - offset + 1] ELSE 0
          idx(d) == out_indices[d + 1]
          flat_of(bad) ==
              IF bad # {} THEN Err(IndexError)
              ELSE Ok(sum_seq([k \in 1..Len(out_shape) |-> idx(k - 1) * t_stride(k - 1)]))
      IN  flat_of({d \in 0..(Len(out_shape) - 1) : idx(d) >= t_dim(d)})

broadcasted_flat_index(t, out_indices, out_shape) ==
    IF Len(out_indices) # Len(out_shape) THEN Err(IndexError)
    ELSE
      LET offset == IF Len(out_shape) >= Len(t.shape) THEN Len(out_shape) - Len(t.shape) ELSE 0
          t_dim(d) == IF d >= offset THEN t.shape[d - offset + 1] ELSE 1
          t_stride(d) == IF d >= offset THEN t.strides[d - offset + 1] ELSE 0
          idx_of(dim, d) == IF dim = 1 THEN 0 ELSE out_indices[d + 1]
          idx(d) == idx_of(t_dim(d), d)
          flat_of(bad) ==
              IF bad # {} THEN Err(IndexError)
              ELSE Ok(sum_seq([k \in 1..Len(out_shape) |-> idx(k - 1) * t_stride(k - 1)]))
      IN  flat_of({d \in 0..(Len(out_shape) - 1) : idx(d) >= t_dim(d)})

(* f32::NAN, the one value that is no number: a reserved integer that no   *)
(* arithmetic on the bounded inputs produces.  Arithmetic on it gives NaN.  *)
NaN == 0 - 1000000

Abs(x) == IF x < 0 THEN 0 - x ELSE x

(* a / b in f32, for b # 0: the quotient when it is an integer.  Quotients  *)
(* that are not integers are not values of the model: the CASE has no arm  *)
(* for them, and the callers draw operands whose quotients are exact.      *)
quotient(a, b) ==
    CASE \E q \in (0 - Abs(a))..Abs(a) : q * b = a ->
             CHOOSE q \in (0 - Abs(a))..Abs(a) : q * b = a

(* The closures of add, subtract, multiply and divide, named by their      *)
(* bodies.                                                                 *)
f_add == "a + b"

f_sub == "a - b"

f_mul == "a * b"

f_div == "if b != 0.0 { a / b } else { f32::NAN }"

(* The closure handed to elementwise_op, applied to one pair of elements. *)
call_op(op, a, b) ==
    IF a = NaN \/ b = NaN THEN NaN
    ELSE CASE op = f_add -> a + b
           [] op = f_sub -> a - b
           [] op = f_mul -> a * b
           [] op = f_div -> IF b # 0 THEN quotient(a, b) ELSE NaN

elementwise_op(self, other, op) ==
    LET cell(a_flat, b_flat) ==
            IF a_flat.st # "ok" THEN a_flat
            ELSE IF b_flat.st # "ok" THEN b_flat
            ELSE Ok(call_op(op, self.data[a_flat.val + 1], other.data[b_flat.val + 1]))
        first_err(cells, bad) == cells[Min(bad)]
        collect(cells, bad, out_shape) ==
            IF bad # {} THEN first_err(cells, bad)
            ELSE Tensor_new([k \in DOMAIN cells |-> cells[k].val], out_shape)
        check(cells, out_shape) ==
            collect(cells, {k \in DOMAIN cells : cells[k].st # "ok"}, out_shape)
        at(t, out_idx, out_shape) == broadcasted_flat_index(t, out_idx, out_shape)
        pair(out_idx, out_shape) ==
            cell(at(self, out_idx, out_shape), at(other, out_idx, out_shape))
        fill(out_shape) ==
            check([k \in 1..product(out_shape) |->
                     pair(unravel_index_static(k - 1, out_shape), out_shape)],
                  out_shape)
        on(bs) == IF bs.st # "ok" THEN bs ELSE fill(bs.val)
    IN  on(broadcast_shapes(self.shape, other.shape))

add(self, other) == elementwise_op(self, other, f_add)

subtract(self, other) == elementwise_op(self, other, f_sub)

multiply(self, other) == elementwise_op(self, other, f_mul)

divide(self, other) == elementwise_op(self, other, f_div)

matmul_other_transposed(self, other) ==
    IF Len(self.shape) # 2 \/ Len(other.shape) # 2 THEN Err(DimensionError)
    ELSE IF self.shape[2] # other.shape[1] THEN Err(InvalidOperation)
    ELSE
      LET m == self.shape[1]
          k == self.shape[2]
          n == other.shape[2]
          term(i, j, p) ==
              call_op(f_mul, self.data[i * k + p + 1], other.data[j * k + p + 1])
          cell(i, j) == sum_seq([p \in 1..k |-> term(i, j, p - 1)])
      IN  Tensor_new([f \in 1..(m * n) |-> cell((f - 1) \div n, (f - 1) % n)], <<m, n>>)

matmul(self, other) ==
    IF Len(self.shape) # 2 \/ Len(other.shape) # 2 THEN Err(DimensionError)
    ELSE IF self.shape[2] # other.shape[1] THEN Err(InvalidOperation)
    ELSE
      LET m == self.shape[1]
          k == self.shape[2]
          n == other.shape[2]
          term(i, j, p) ==
              call_op(f_mul, self.data[i * k + p + 1], other.data[p * n + j + 1])
          cell(i, j) == sum_seq([p \in 1..k |-> term(i, j, p - 1)])
      IN  Tensor_new([f \in 1..(m * n) |-> cell((f - 1) \div n, (f - 1) % n)], <<m, n>>)

transpose_2d_shape_only(self) ==
    IF Len(self.shape) # 2 THEN Err(DimensionError)
    ELSE Tensor_new(self.data, <<self.shape[2], self.shape[1]>>)

transpose_2d(self) ==
    IF Len(self.shape) # 2 THEN Err(DimensionError)
    ELSE
      LET rows == self.shape[1]
          cols == self.shape[2]
          from(c, r) == self.data[r * cols + c + 1]
      IN  Tensor_new([f \in 1..(rows * cols) |-> from((f - 1) \div rows, (f - 1) % rows)],
                     <<cols, rows>>)

(* v.max(0.0): f32::max returns the other operand when one is NaN. *)
relu(self) ==
    Tensor_new([i \in 1..Len(self.data) |->
                  IF self.data[i] = NaN THEN 0
                  ELSE IF self.data[i] > 0 THEN self.data[i] ELSE 0],
               self.shape)

sum_raveled_in_input_shape(self, dim) ==
    IF dim = {} THEN Tensor_new(<<sum_seq(self.data)>>, <<1>>)
    ELSE
      LET axis == CHOOSE a \in dim : TRUE
      IN  IF axis >= Len(self.shape) THEN Err(DimensionError)
          ELSE
            LET out_shape == [self.shape EXCEPT ![axis + 1] = 1]
                out_flat(flat) ==
                    ravel_index_static(
                        [unravel_index_static(flat, self.shape) EXCEPT ![axis + 1] = 0],
                        self.shape)
                cell(o) == {flat \in 0..(Len(self.data) - 1) : out_flat(flat) = o}
                RECURSIVE total(_)
                total(S) == IF S = {} THEN 0
                            ELSE LET f == CHOOSE f \in S : TRUE
                                 IN  self.data[f + 1] + total(S \ {f})
            IN  Tensor_new([k \in 1..product(out_shape) |-> total(cell(k - 1))], out_shape)

(* dim is Option<usize>: {} for None, {axis} for Some(axis). *)
sum(self, dim) ==
    IF dim = {} THEN Tensor_new(<<sum_seq(self.data)>>, <<1>>)
    ELSE
      LET axis == CHOOSE a \in dim : TRUE
      IN  IF axis >= Len(self.shape) THEN Err(DimensionError)
          ELSE
            LET out_shape == [self.shape EXCEPT ![axis + 1] = 1]
                out_flat(flat) ==
                    ravel_index_static(
                        [unravel_index_static(flat, self.shape) EXCEPT ![axis + 1] = 0],
                        out_shape)
                cell(o) == {flat \in 0..(Len(self.data) - 1) : out_flat(flat) = o}
                RECURSIVE total(_)
                total(S) == IF S = {} THEN 0
                            ELSE LET f == CHOOSE f \in S : TRUE
                                 IN  self.data[f + 1] + total(S \ {f})
            IN  Tensor_new([k \in 1..product(out_shape) |-> total(cell(k - 1))], out_shape)

(***************************************************************************)
(* tensor_index.rs                                                         *)
(***************************************************************************)
ravel_index(idx, shape) ==
    IF Len(idx) # Len(shape) THEN Err(DimensionError)
    ELSE
      LET strides == compute_strides(shape)
          bad == {i \in 1..Len(shape) : idx[i] >= shape[i]}
      IN  IF bad # {} THEN Err(IndexError)
          ELSE Ok(sum_seq([i \in 1..Len(shape) |-> idx[i] * strides[i]]))

unravel_index_reversed(flat, shape) ==
    IF flat >= product(shape) THEN Err(IndexError)
    ELSE Ok([i \in 1..Len(shape) |->
               unravel_index_static(flat, shape)[Len(shape) + 1 - i]])

unravel_index(flat, shape) ==
    IF flat >= product(shape) THEN Err(IndexError)
    ELSE Ok(unravel_index_static(flat, shape))

(***************************************************************************)
(* ops.rs: the operation catalog.  An op value is a record; SumOp carries  *)
(* its dim.  forward returns Result<Tensor>, backward Result<Vec<Tensor>>. *)
(***************************************************************************)
AddOp == [kind |-> "Add", dim |-> {}]

SubtractOp == [kind |-> "Subtract", dim |-> {}]

MultiplyOp == [kind |-> "Multiply", dim |-> {}]

SumOp(dim) == [kind |-> "Sum", dim |-> dim]

DivideOp == [kind |-> "Divide", dim |-> {}]

MatMulOp == [kind |-> "MatMul", dim |-> {}]

ReluOp == [kind |-> "Relu", dim |-> {}]

LogOp == [kind |-> "Log", dim |-> {}]

SoftmaxOp == [kind |-> "Softmax", dim |-> {}]

negate(t) ==
    [t EXCEPT !.data = [i \in 1..Len(t.data) |->
                          IF t.data[i] = NaN THEN NaN ELSE 0 - t.data[i]]]

(* a / b without the zero guard of Tensor::divide: 0 / 0 is NaN.  Infinite  *)
(* and non-integer quotients are not values of the model.                  *)
raw_div(a, b) ==
    IF a = NaN \/ b = NaN THEN NaN
    ELSE CASE b # 0 -> quotient(a, b)
           [] b = 0 /\ a = 0 -> NaN

(* v.ln() and v.exp() where the result is an integer or NaN. *)
ln(v) ==
    IF v = NaN THEN NaN
    ELSE CASE v < 0 -> NaN
           [] v = 1 -> 0

exp(v) ==
    IF v = NaN THEN NaN
    ELSE CASE v = 0 -> 1

(* Option::unwrap on a value that is present. *)
unwrap(o) == CHOOSE t \in o : TRUE

validate_invert_args_index_first(known, solve_for, arity) ==
    IF solve_for >= arity THEN Err(IndexError)
    ELSE IF Len(known) # arity THEN Err(InputCountError(arity, Len(known)))
    ELSE IF known[solve_for + 1] # {} THEN Err(InvalidOperation)
    ELSE IF \E i \in 0..(Len(known) - 1) : i # solve_for /\ known[i + 1] = {}
    THEN Err(InvalidOperation)
    ELSE Ok(<<>>)

validate_invert_args(known, solve_for, arity) ==
    IF Len(known) # arity THEN Err(InputCountError(arity, Len(known)))
    ELSE IF solve_for >= arity THEN Err(IndexError)
    ELSE IF known[solve_for + 1] # {} THEN Err(InvalidOperation)
    ELSE IF \E i \in 0..(Len(known) - 1) : i # solve_for /\ known[i + 1] = {}
    THEN Err(InvalidOperation)
    ELSE Ok(<<>>)

AddOp_forward(inputs) ==
    IF Len(inputs) # 2 THEN Err(InputCountError(2, Len(inputs)))
    ELSE add(inputs[1], inputs[2])

AddOp_backward(inputs, grad_output) == Ok(<<grad_output, grad_output>>)

SubtractOp_forward(inputs) ==
    IF Len(inputs) # 2 THEN Err(InputCountError(2, Len(inputs)))
    ELSE subtract(inputs[1], inputs[2])

SubtractOp_backward(inputs, grad_output) == Ok(<<grad_output, negate(grad_output)>>)

MultiplyOp_forward(inputs) ==
    IF Len(inputs) # 2 THEN Err(InputCountError(2, Len(inputs)))
    ELSE multiply(inputs[1], inputs[2])

MultiplyOp_backward(inputs, grad_output) ==
    IF Len(inputs) # 2 THEN Err(InputCountError(2, Len(inputs)))
    ELSE
      LET both(grad_a, grad_b) ==
              IF grad_a.st # "ok" THEN grad_a
              ELSE IF grad_b.st # "ok" THEN grad_b
              ELSE Ok(<<grad_a.val, grad_b.val>>)
      IN  both(multiply(grad_output, inputs[2]), multiply(grad_output, inputs[1]))

SumOp_forward(op, inputs) ==
    IF Len(inputs) # 1 THEN Err(InputCountError(1, Len(inputs)))
    ELSE sum(inputs[1], op.dim)

SumOp_backward(op, inputs, grad_output) ==
    IF Len(inputs) # 1 THEN Err(InputCountError(1, Len(inputs)))
    ELSE
      LET input == inputs[1]
          filled(grad_input, g) ==
              Ok(<<[grad_input EXCEPT !.data = [i \in 1..Len(input.data) |-> g]]>>)
          g_flat(idx, axis) ==
              IF idx.st # "ok" THEN idx
              ELSE ravel_index([idx.val EXCEPT ![axis + 1] = 0], grad_output.shape)
          first_err(cells, bad) == Err(cells[Min(bad)].err)
          collect(grad_input, cells, bad) ==
              IF bad # {} THEN first_err(cells, bad)
              ELSE Ok(<<[grad_input EXCEPT !.data =
                           [k \in DOMAIN cells |-> grad_output.data[cells[k].val + 1]]]>>)
          check(grad_input, cells) ==
              collect(grad_input, cells, {k \in DOMAIN cells : cells[k].st # "ok"})
          spread(grad_input, axis) ==
              IF axis >= Len(input.shape) THEN Err(DimensionError)
              ELSE check(grad_input,
                         [k \in 1..Len(grad_input.data) |->
                            g_flat(unravel_index(k - 1, input.shape), axis)])
          on(grad_input) ==
              IF grad_input.st # "ok" THEN grad_input
              ELSE IF op.dim = {}
              THEN filled(grad_input.val,
                          IF grad_output.data = <<>> THEN 0 ELSE grad_output.data[1])
              ELSE spread(grad_input.val, CHOOSE a \in op.dim : TRUE)
      IN  on(zeros_like(input))

(* out = a + b: a = out - b, b = out - a *)
AddOp_invert(output, known, solve_for) ==
    LET solve(valid) ==
            IF valid.st # "ok" THEN valid
            ELSE subtract(output, unwrap(known[(1 - solve_for) + 1]))
    IN  solve(validate_invert_args(known, solve_for, 2))

SubtractOp_invert_sides_swapped(output, known, solve_for) ==
    LET other == unwrap(known[(1 - solve_for) + 1])
        solve(valid) ==
            IF valid.st # "ok" THEN valid
            ELSE IF solve_for = 0 THEN add(output, other)
            ELSE subtract(output, other)
    IN  solve(validate_invert_args(known, solve_for, 2))

(* out = a - b: a = out + b, b = a - out *)
SubtractOp_invert(output, known, solve_for) ==
    LET other == unwrap(known[(1 - solve_for) + 1])
        solve(valid) ==
            IF valid.st # "ok" THEN valid
            ELSE IF solve_for = 0 THEN add(output, other)
            ELSE subtract(other, output)
    IN  solve(validate_invert_args(known, solve_for, 2))

MultiplyOp_invert_multiplying(output, known, solve_for) ==
    LET solve(valid) ==
            IF valid.st # "ok" THEN valid
            ELSE multiply(output, unwrap(known[(1 - solve_for) + 1]))
    IN  solve(validate_invert_args(known, solve_for, 2))

(* out = a * b: a = out / b, b = out / a *)
MultiplyOp_invert(output, known, solve_for) ==
    LET solve(valid) ==
            IF valid.st # "ok" THEN valid
            ELSE divide(output, unwrap(known[(1 - solve_for) + 1]))
    IN  solve(validate_invert_args(known, solve_for, 2))

DivideOp_forward(inputs) ==
    IF Len(inputs) # 2 THEN Err(InputCountError(2, Len(inputs)))
    ELSE divide(inputs[1], inputs[2])

(* grad_a = grad_output / b; grad_b = -(grad_output * a) / (b * b) *)
DivideOp_backward(inputs, grad_output) ==
    IF Len(inputs) # 2 THEN Err(InputCountError(2, Len(inputs)))
    ELSE
      LET a == inputs[1]
          b == inputs[2]
          with_grad_b(grad_a, grad_b) ==
              IF grad_b.st # "ok" THEN grad_b ELSE Ok(<<grad_a, negate(grad_b.val)>>)
          with_num(grad_a, b2, num) ==
              IF num.st # "ok" THEN num ELSE with_grad_b(grad_a, divide(num.val, b2))
          with_b2(grad_a, b2) ==
              IF b2.st # "ok" THEN b2 ELSE with_num(grad_a, b2.val, multiply(grad_output, a))
          with_grad_a(grad_a) ==
              IF grad_a.st # "ok" THEN grad_a ELSE with_b2(grad_a.val, multiply(b, b))
      IN  with_grad_a(divide(grad_output, b))

(* out = a / b: a = out * b, b = a / out *)
DivideOp_invert(output, known, solve_for) ==
    LET other == unwrap(known[(1 - solve_for) + 1])
        solve(valid) ==
            IF valid.st # "ok" THEN valid
            ELSE IF solve_for = 0 THEN multiply(output, other)
            ELSE divide(other, output)
    IN  solve(validate_invert_args(known, solve_for, 2))

MatMulOp_forward(inputs) ==
    IF Len(inputs) # 2 THEN Err(InputCountError(2, Len(inputs)))
    ELSE matmul(inputs[1], inputs[2])

MatMulOp_backward(inputs, grad_output) ==
    IF Len(inputs) # 2 THEN Err(InputCountError(2, Len(inputs)))
    ELSE
      LET both(grad_a, grad_b) ==
              IF grad_a.st # "ok" THEN grad_a
              ELSE IF grad_b.st # "ok" THEN grad_b
              ELSE Ok(<<grad_a.val, grad_b.val>>)
          products(b_t, a_t) ==
              IF b_t.st # "ok" THEN b_t
              ELSE IF a_t.st # "ok" THEN a_t
              ELSE both(matmul(grad_output, b_t.val), matmul(a_t.val, grad_output))
      IN  products(transpose_2d(inputs[2]), transpose_2d(inputs[1]))

ReluOp_forward(inputs) ==
    IF Len(inputs) # 1 THEN Err(InputCountError(1, Len(inputs)))
    ELSE relu(inputs[1])

ReluOp_backward(inputs, grad_output) ==
    IF Len(inputs) # 1 THEN Err(InputCountError(1, Len(inputs)))
    ELSE
      LET input == inputs[1]
          gate(v, g) == IF v # NaN /\ v > 0 THEN g ELSE 0
          fill(grad) ==
              IF grad.st # "ok" THEN grad
              ELSE Ok(<<[grad.val EXCEPT !.data =
                           [i \in 1..Len(input.data) |->
                              gate(input.data[i], grad_output.data[i])]]>>)
      IN  IF Len(input.data) # Len(grad_output.data)
          THEN Err(ShapeMismatch(Len(input.data), Len(grad_output.data)))
          ELSE fill(zeros_like(input))

LogOp_forward(inputs) ==
    IF Len(inputs) # 1 THEN Err(InputCountError(1, Len(inputs)))
    ELSE Tensor_new([i \in 1..Len(inputs[1].data) |-> ln(inputs[1].data[i])],
                    inputs[1].shape)

LogOp_backward(inputs, grad_output) ==
    IF Len(inputs) # 1 THEN Err(InputCountError(1, Len(inputs)))
    ELSE
      LET x == inputs[1]
          fill(grad) ==
              IF grad.st # "ok" THEN grad
              ELSE Ok(<<[grad.val EXCEPT !.data =
                           [i \in 1..Len(x.data) |->
                              raw_div(grad_output.data[i], x.data[i])]]>>)
      IN  IF Len(x.data) # Len(grad_output.data)
          THEN Err(ShapeMismatch(Len(x.data), Len(grad_output.data)))
          ELSE fill(zeros_like(x))

(* out = ln(x): x = exp(out) *)
LogOp_invert(output, known, solve_for) ==
    LET solve(valid) ==
            IF valid.st # "ok" THEN valid
            ELSE Tensor_new([i \in 1..Len(output.data) |-> exp(output.data[i])],
                            output.shape)
    IN  solve(validate_invert_args(known, solve_for, 1))

(* One row of softmax: exp(x - max) over the row, divided by the row sum. *)
softmax_row(row) ==
    LET max == CHOOSE m \in {row[i] : i \in DOMAIN row} :
                   \A i \in DOMAIN row : row[i] <= m
        normalise(exps) == [i \in DOMAIN exps |-> raw_div(exps[i], sum_seq(exps))]
    IN  normalise([i \in DOMAIN row |-> exp(call_op(f_sub, row[i], max))])

(* Row r of a rank-2 buffer with cols columns. *)
row_of(data, r, cols) == SubSeq(data, r * cols + 1, r * cols + cols)

softmax_1d(x) == Tensor_new(softmax_row(x.data), <<x.shape[1]>>)

softmax_2d(x) ==
    LET rows == x.shape[1]
        cols == x.shape[2]
        out(r, c) == softmax_row(row_of(x.data, r, cols))[c + 1]
    IN  Tensor_new([f \in 1..(rows * cols) |-> out((f - 1) \div cols, (f - 1) % cols)],
                   <<rows, cols>>)

SoftmaxOp_forward(inputs) ==
    IF Len(inputs) # 1 THEN Err(InputCountError(1, Len(inputs)))
    ELSE IF Len(inputs[1].shape) = 1 THEN softmax_1d(inputs[1])
    ELSE IF Len(inputs[1].shape) = 2 THEN softmax_2d(inputs[1])
    ELSE Err(DimensionError)

(* y * (grad_output - sum(grad_output * y)), over one row *)
softmax_row_grad(y, g) ==
    LET scaled(dot) ==
            [i \in DOMAIN y |-> call_op(f_mul, y[i], call_op(f_sub, g[i], dot))]
    IN  scaled(sum_seq([i \in DOMAIN y |-> call_op(f_mul, g[i], y[i])]))

SoftmaxOp_backward(inputs, grad_output) ==
    IF Len(inputs) # 1 THEN Err(InputCountError(1, Len(inputs)))
    ELSE
      LET x == inputs[1]
          vec(grad) == IF grad.st # "ok" THEN grad ELSE Ok(<<grad.val>>)
          grad_1d(y, n) ==
              IF grad_output.shape # <<n>> THEN Err(InvalidOperation)
              ELSE vec(Tensor_new(softmax_row_grad(y.data, grad_output.data), <<n>>))
          cell(y, r, c, cols) ==
              softmax_row_grad(row_of(y.data, r, cols),
                               row_of(grad_output.data, r, cols))[c + 1]
          grad_2d(y, rows, cols) ==
              IF grad_output.shape # <<rows, cols>> THEN Err(InvalidOperation)
              ELSE vec(Tensor_new([f \in 1..(rows * cols) |->
                                     cell(y, (f - 1) \div cols, (f - 1) % cols, cols)],
                                  <<rows, cols>>))
          with_y(y) ==
              IF y.st # "ok" THEN y
              ELSE IF Len(x.shape) = 1 THEN grad_1d(y.val, x.shape[1])
              ELSE grad_2d(y.val, x.shape[1], x.shape[2])
      IN  with_y(SoftmaxOp_forward(inputs))

(* An Op implemented by the caller (the trait and apply_op are public):    *)
(* forward hands back its first input, backward hands back `grads` copies *)
(* of grad_output, whatever the number of inputs.                          *)
CallerOp(grads) == [kind |-> "Caller", dim |-> {}, grads |-> grads]

CallerOp_forward(inputs) ==
    IF inputs = <<>> THEN Err(InputCountError(1, 0)) ELSE Ok(inputs[1])

CallerOp_backward(op, inputs, grad_output) == Ok([i \in 1..op.grads |-> grad_output])

(* Dynamic dispatch through Box<dyn Op>. *)
Op_forward(op, inputs) ==
    CASE op.kind = "Add" -> AddOp_forward(inputs)
      [] op.kind = "Subtract" -> SubtractOp_forward(inputs)
      [] op.kind = "Multiply" -> MultiplyOp_forward(inputs)
      [] op.kind = "Divide" -> DivideOp_forward(inputs)
      [] op.kind = "MatMul" -> MatMulOp_forward(inputs)
      [] op.kind = "Relu" -> ReluOp_forward(inputs)
      [] op.kind = "Sum" -> SumOp_forward(op, inputs)
      [] op.kind = "Log" -> LogOp_forward(inputs)
      [] op.kind = "Softmax" -> SoftmaxOp_forward(inputs)
      [] op.kind = "Caller" -> CallerOp_forward(inputs)

Op_backward(op, inputs, grad_output) ==
    CASE op.kind = "Add" -> AddOp_backward(inputs, grad_output)
      [] op.kind = "Subtract" -> SubtractOp_backward(inputs, grad_output)
      [] op.kind = "Multiply" -> MultiplyOp_backward(inputs, grad_output)
      [] op.kind = "Divide" -> DivideOp_backward(inputs, grad_output)
      [] op.kind = "MatMul" -> MatMulOp_backward(inputs, grad_output)
      [] op.kind = "Relu" -> ReluOp_backward(inputs, grad_output)
      [] op.kind = "Sum" -> SumOp_backward(op, inputs, grad_output)
      [] op.kind = "Log" -> LogOp_backward(inputs, grad_output)
      [] op.kind = "Softmax" -> SoftmaxOp_backward(inputs, grad_output)
      [] op.kind = "Caller" -> CallerOp_backward(op, inputs, grad_output)

(* Dynamic dispatch through the InvertibleOp implementations. *)
Op_invert(op, output, known, solve_for) ==
    CASE op.kind = "Add" -> AddOp_invert(output, known, solve_for)
      [] op.kind = "Subtract" -> SubtractOp_invert(output, known, solve_for)
      [] op.kind = "Multiply" -> MultiplyOp_invert(output, known, solve_for)
      [] op.kind = "Divide" -> DivideOp_invert(output, known, solve_for)
      [] op.kind = "Log" -> LogOp_invert(output, known, solve_for)

(***************************************************************************)
(* run_manifest.rs.  A String is the sequence of its bytes; a u64 is the   *)
(* sequence of its eight bytes, lowest first.                              *)
(***************************************************************************)
(* The literal pieces of the format string of manifest_hash, as bytes:     *)
(*   1: "crate_version="                                                   *)
(*   2: ";git_commit="                                                     *)
(*   3: ";seed="                                                           *)
(*   4: ";config_hash="                                                    *)
(*   5: ";input_hash="                                                     *)
(*   6: ";feature_schema_hash="                                            *)
(*   7: ";"                                                                *)
Template ==
    <<<<99, 114, 97, 116, 101, 95, 118, 101, 114, 115, 105, 111, 110, 61>>,
      <<59, 103, 105, 116, 95, 99, 111, 109, 109, 105, 116, 61>>,
      <<59, 115, 101, 101, 100, 61>>,
      <<59, 99, 111, 110, 102, 105, 103, 95, 104, 97, 115, 104, 61>>,
      <<59, 105, 110, 112, 117, 116, 95, 104, 97, 115, 104, 61>>,
      <<59, 102, 101, 97, 116, 117, 114, 101, 95, 115, 99, 104, 101, 109, 97, 95, 104, 97, 115, 104, 61>>,
      <<59>>>>

(* u64::to_string: the decimal digits. *)
RECURSIVE to_string(_)
to_string(n) ==
    IF n < 10 THEN <<48 + n>> ELSE to_string(n \div 10) \o <<48 + (n % 10)>>

(* a ^ b on two bytes. *)
RECURSIVE xor_u8(_, _)
xor_u8(a, b) ==
    IF a = 0 THEN b
    ELSE IF b = 0 THEN a
    ELSE ((a + b) % 2) + 2 * xor_u8(a \div 2, b \div 2)

(* u64::wrapping_mul: the low eight bytes of the product, byte k being    *)
(* the k-th column of the long multiplication plus the carry, modulo 256.  *)
wrapping_mul(a, b) ==
    LET column(k) == sum_seq([i \in 1..k |-> a[i] * b[k + 1 - i]])
        RECURSIVE bytes_from(_, _)
        bytes_from(k, total) ==
            IF k = 8 THEN <<total % 256>>
            ELSE <<total % 256>> \o bytes_from(k + 1, column(k + 1) + (total \div 256))
    IN  bytes_from(1, column(1))

(* FNV-1a, 64 bit: offset basis 0xcbf29ce484222325, prime 0x100000001b3;   *)
(* the result is formatted as sixteen lower-case hexadecimal digits.       *)
(* (fold reads hash at every step, so each step is computed before the    *)
(* next one starts.)                                                       *)
hash_bytes_sha256(bytes) ==
    LET RECURSIVE fold(_, _)
        fold(hash, i) ==
            IF Len(hash) # 8 \/ i > Len(bytes) THEN hash
            ELSE fold(wrapping_mul([hash EXCEPT ![1] = xor_u8(@, bytes[i])],
                                   <<179, 1, 0, 0, 0, 1, 0, 0>>),
                      i + 1)
        hex(d) == IF d < 10 THEN 48 + d ELSE 87 + d
        digit(hash, k) ==
            IF k % 2 = 1 THEN hash[8 - (k \div 2)] \div 16 ELSE hash[9 - (k \div 2)] % 16
        format(hash) == [k \in 1..16 |-> hex(digit(hash, k))]
    IN  format(fold(<<37, 35, 34, 132, 228, 156, 242, 203>>, 1))

(* The string manifest_hash formats: an absent git_commit or seed is       *)
(* written as the empty string.                                            *)
serialized(self) ==
    Template[1] \o self.crate_version
    \o Template[2] \o (IF self.git_commit = {} THEN <<>> ELSE unwrap(self.git_commit))
    \o Template[3] \o (IF self.seed = {} THEN <<>> ELSE to_string(unwrap(self.seed)))
    \o Template[4] \o self.config_hash
    \o Template[5] \o self.input_hash
    \o Template[6] \o self.feature_schema_hash
    \o Template[7]

manifest_hash(self) == hash_bytes_sha256(serialized(self))

(***************************************************************************)
(* graph.rs: Node and Graph.  A node is one record for the three variants: *)
(* t and requires_grad are meaningful for Input/Parameter, op and inputs   *)
(* for Operation.  gradients is the HashMap<usize, Tensor> as a function   *)
(* on its key set.                                                         *)
(***************************************************************************)
NoTensor == [data |-> <<>>, shape |-> <<>>, strides |-> <<>>]

NoOp == [kind |-> "None", dim |-> {}]

Input(t) ==
    [kind |-> "Input", t |-> t, requires_grad |-> FALSE, op |-> NoOp, inputs |-> <<>>]

Parameter(t, requires_grad) ==
    [kind |-> "Parameter", t |-> t, requires_grad |-> requires_grad, op |-> NoOp, inputs |-> <<>>]

Operation(op, inputs) ==
    [kind |-> "Operation", t |-> NoTensor, requires_grad |-> FALSE, op |-> op, inputs |-> inputs]

EmptyMap == [k \in {} |-> NoTensor]

insert(map, k, v) == [x \in (DOMAIN map) \cup {k} |-> IF x = k THEN v ELSE map[x]]

(* Graph::forward.  stack holds the node indices whose evaluation is in    *)
(* progress: the function is pure, so a call that re-enters one of them    *)
(* repeats the same calls without end and the recursion overflows.         *)
RECURSIVE forward_from(_, _, _)
RECURSIVE forward_inputs(_, _, _)
forward_from(ns, node_idx, stack) ==
    IF node_idx >= Len(ns) THEN Err(IndexError)
    ELSE IF node_idx \in stack THEN Overflow
    ELSE
      LET apply(node, ins) == IF ins.st # "ok" THEN ins ELSE Op_forward(node.op, ins.val)
          eval(node) ==
              IF node.kind # "Operation" THEN Ok(node.t)
              ELSE apply(node, forward_inputs(ns, node.inputs, stack \cup {node_idx}))
      IN  eval(ns[node_idx + 1])

forward_inputs(ns, input_indices, stack) ==
    IF input_indices = <<>> THEN Ok(<<>>)
    ELSE
      LET push(first, rest) ==
              IF rest.st # "ok" THEN rest ELSE Ok(<<first.val>> \o rest.val)
          then(first) ==
              IF first.st # "ok" THEN first
              ELSE push(first, forward_inputs(ns, Tail(input_indices), stack))
      IN  then(forward_from(ns, Head(input_indices), stack))

forward(ns, node_idx) == forward_from(ns, node_idx, {})

get_tensor_stored_only(ns, node_idx) ==
    IF node_idx >= Len(ns) THEN Err(IndexError) ELSE Ok(ns[node_idx + 1].t)

get_tensor(ns, node_idx) == forward(ns, node_idx)

(* Graph::topological_sort with its inner dfs; acc is (visited, result). *)
RECURSIVE dfs(_, _, _)
RECURSIVE dfs_inputs(_, _, _)
dfs(ns, node_idx, acc) ==
    IF node_idx \in acc.visited THEN acc
    ELSE
      LET push(below) ==
              IF below.st # "ok" THEN below
              ELSE [below EXCEPT !.result = Append(@, node_idx)]
          visit(node, seen) ==
              push(IF node.kind = "Operation"
                   THEN dfs_inputs(ns, node.inputs, seen)
                   ELSE seen)
          enter(seen) ==
              IF node_idx >= Len(ns) THEN [seen EXCEPT !.st = "err"]
              ELSE visit(ns[node_idx + 1], seen)
      IN  enter([acc EXCEPT !.visited = @ \cup {node_idx}])

dfs_inputs(ns, input_indices, acc) ==
    IF input_indices = <<>> THEN acc
    ELSE
      LET then(first) ==
              IF first.st # "ok" THEN first
              ELSE dfs_inputs(ns, Tail(input_indices), first)
      IN  then(dfs(ns, Head(input_indices), acc))

topological_sort_consumers_first(ns, start_idx) ==
    LET reversed(r) == [i \in 1..Len(r) |-> r[Len(r) + 1 - i]]
        done(r) == IF r.st = "ok" THEN Ok(reversed(r.result)) ELSE Err(IndexError)
    IN  done(dfs(ns, start_idx, [st |-> "ok", visited |-> {}, result |-> <<>>]))

topological_sort(ns, start_idx) ==
    LET done(r) == IF r.st = "ok" THEN Ok(r.result) ELSE Err(IndexError)
    IN  done(dfs(ns, start_idx, [st |-> "ok", visited |-> {}, result |-> <<>>]))

node_requires_grad_every_node(ns, node_idx) == node_idx < Len(ns)

node_requires_grad(ns, node_idx) ==
    IF node_idx >= Len(ns) THEN FALSE
    ELSE
      LET node == ns[node_idx + 1]
      IN  CASE node.kind = "Parameter" -> node.requires_grad
            [] node.kind = "Operation" -> TRUE
            [] node.kind = "Input" -> FALSE

get_gradient(grads, node_idx) ==
    IF node_idx \in DOMAIN grads THEN {grads[node_idx]} ELSE {}

zero_grad_noop(grads) == grads

zero_grad_retain_min(grads) ==
    [k \in {x \in DOMAIN grads : \A y \in DOMAIN grads : x <= y} |-> grads[k]]

zero_grad(grads) == EmptyMap

get_parameter_mut_any_parameter(ns, node_idx) ==
    IF node_idx < Len(ns) /\ ns[node_idx + 1].kind = "Parameter"
    THEN Ok(ns[node_idx + 1].t)
    ELSE Err(InvalidOperation)

get_parameter_mut(ns, node_idx) ==
    IF node_idx < Len(ns) /\ ns[node_idx + 1].kind = "Parameter"
    THEN IF ns[node_idx + 1].requires_grad
         THEN Ok(ns[node_idx + 1].t)
         ELSE Err(InvalidOperation)
    ELSE Err(InvalidOperation)

(* Graph::backward.  A run is the gradient map being built, the outcome so *)
(* far and the keys written so far (seed or accumulation).                 *)
seed_accumulating(grads, output_idx, grad_output) ==
    IF output_idx \in DOMAIN grads
    THEN insert(grads, output_idx, add(grads[output_idx], grad_output).val)
    ELSE insert(grads, output_idx, grad_output)

seed(grads, output_idx, grad_output) == insert(grads, output_idx, grad_output)

accumulate_entry_overwriting(grads, input_idx, input_grad) ==
    Ok(insert(grads, input_idx, input_grad))

(* entry(input_idx).and_modify(add).or_insert(input_grad) *)
accumulate_entry(grads, input_idx, input_grad) ==
    LET and_modify(r) ==
            IF r.st # "ok" THEN Panic ELSE Ok(insert(grads, input_idx, r.val))
    IN  IF input_idx \in DOMAIN grads
        THEN and_modify(add(grads[input_idx], input_grad))
        ELSE Ok(insert(grads, input_idx, input_grad))

RECURSIVE accumulate(_, _, _, _)
accumulate(ns, run, input_indices, input_grads) ==
    IF input_indices = <<>> \/ input_grads = <<>> THEN run
    ELSE
      LET input_idx == Head(input_indices)
          rest(next) ==
              IF next.st # "ok" THEN next
              ELSE accumulate(ns, next, Tail(input_indices), Tail(input_grads))
          stored(r) ==
              IF r.st # "ok" THEN [run EXCEPT !.st = r.st]
              ELSE [run EXCEPT !.grads = r.val, !.touched = @ \cup {input_idx}]
      IN  rest(IF ~node_requires_grad(ns, input_idx) THEN run
               ELSE stored(accumulate_entry(run.grads, input_idx, Head(input_grads))))

backward_node_zipping(ns, run, node_idx) ==
    IF node_idx \notin DOMAIN run.grads THEN run
    ELSE IF node_idx >= Len(ns) THEN [run EXCEPT !.st = "err", !.err = IndexError]
    ELSE
      LET grad == run.grads[node_idx]
          spread(node, input_grads) ==
              IF input_grads.st # "ok"
              THEN [run EXCEPT !.st = "err", !.err = input_grads.err]
              ELSE accumulate(ns, run, node.inputs, input_grads.val)
          through(node, ins) ==
              IF ins.st # "ok" THEN [run EXCEPT !.st = ins.st, !.err = ins.err]
              ELSE spread(node, Op_backward(node.op, ins.val, grad))
          visit(node) ==
              IF node.kind # "Operation" THEN run
              ELSE through(node, forward_inputs(ns, node.inputs, {}))
      IN  visit(ns[node_idx + 1])

(* One iteration of the loop over sorted_nodes.iter().rev(). *)
backward_node(ns, run, node_idx) ==
    IF node_idx \notin DOMAIN run.grads THEN run
    ELSE IF node_idx >= Len(ns) THEN [run EXCEPT !.st = "err", !.err = IndexError]
    ELSE
      LET grad == run.grads[node_idx]
          spread(node, input_grads) ==
              IF input_grads.st # "ok"
              THEN [run EXCEPT !.st = "err", !.err = input_grads.err]
              ELSE IF Len(input_grads.val) # Len(node.inputs)
              THEN [run EXCEPT !.st = "err", !.err = InvalidOperation]
              ELSE accumulate(ns, run, node.inputs, input_grads.val)
          through(node, ins) ==
              IF ins.st # "ok" THEN [run EXCEPT !.st = ins.st, !.err = ins.err]
              ELSE spread(node, Op_backward(node.op, ins.val, grad))
          visit(node) ==
              IF node.kind # "Operation" THEN run
              ELSE through(node, forward_inputs(ns, node.inputs, {}))
      IN  visit(ns[node_idx + 1])

RECURSIVE backward_walk(_, _, _, _)
backward_walk(ns, run, sorted_nodes, i) ==
    IF i = 0 \/ run.st # "ok" THEN run
    ELSE backward_walk(ns, backward_node(ns, run, sorted_nodes[i]), sorted_nodes, i - 1)

backward(ns, grads, output_idx) ==
    LET walk(seeded, sorted_nodes) ==
            IF sorted_nodes.st # "ok"
            THEN [seeded EXCEPT !.st = "err", !.err = sorted_nodes.err]
            ELSE backward_walk(ns, seeded, sorted_nodes.val, Len(sorted_nodes.val))
        from(output) ==
            IF output.st # "ok"
            THEN [st |-> output.st, err |-> output.err, grads |-> grads, touched |-> {}]
            ELSE walk([st |-> "ok", err |-> NoError,
                       grads |-> seed(grads, output_idx, ones_like(output.val)),
                       touched |-> {output_idx}],
                      topological_sort(ns, output_idx))
    IN  from(forward(ns, output_idx))

(***************************************************************************)
(* The graph as a state machine: one action per public Graph operation.    *)
(*   call        the last operation called and its index argument          *)
(*   ret         how it ended: outcome, error, returned tensor or index    *)
(*   touched     the keys written by the most recent backward call         *)
(*   contributed the keys written by any backward since the last zero_grad *)
(*   streak      k successful backward(o) calls in a row, the first of     *)
(*               them started on an empty gradient map; cleared tells      *)
(*               that this map had been emptied by zero_grad after an      *)
(*               earlier backward wrote to it                              *)
(*   nback       backward calls that wrote a gradient since zero_grad      *)
(***************************************************************************)
VARIABLES nodes, gradients, call, ret, touched, contributed, streak, nback

vars == <<nodes, gradients, call, ret, touched, contributed, streak, nback>>

(* Bounds of the explored graphs and call sequences. *)
MaxNodes == 3

MaxIdx == 1

MaxBackward == 2

T2 == Tensor_new(<<1, 2>>, <<2>>).val

T1 == Tensor_new(<<3>>, <<1>>).val

T3 == Tensor_new(<<1, 2, 3>>, <<3>>).val

InputTensors == {T2}

ParamTensors == {T2, T1}

NodeArgs == 0..MaxNodes

IndexLists == {<<i, j>> : i \in 0..MaxIdx, j \in 0..MaxIdx}

Returned(st, err, t, idx) == [st |-> st, err |-> err, t |-> t, idx |-> idx]

NoStreak == [o |-> 0, k |-> 0, cleared |-> FALSE]

(* A panic or a stack overflow ends the process. *)
Alive == ret.st \in {"ok", "err"}

Init ==
    /\ nodes = <<>>
    /\ gradients = EmptyMap
    /\ call = [op |-> "new", arg |-> 0]
    /\ ret = Returned("ok", NoError, NoTensor, 0)
    /\ touched = {}
    /\ contributed = {}
    /\ streak = NoStreak
    /\ nback = 0

AddInput_index_after_push(tensor) ==
    /\ Alive
    /\ nodes' = Append(nodes, Input(tensor))
    /\ call' = [op |-> "add_input", arg |-> 0]
    /\ ret' = Returned("ok", NoError, NoTensor, Len(nodes'))
    /\ streak' = NoStreak
    /\ UNCHANGED <<gradients, touched, contributed, nback>>

AddInput(tensor) ==
    /\ Alive
    /\ nodes' = Append(nodes, Input(tensor))
    /\ call' = [op |-> "add_input", arg |-> 0]
    /\ ret' = Returned("ok", NoError, NoTensor, Len(nodes))
    /\ streak' = NoStreak
    /\ UNCHANGED <<gradients, touched, contributed, nback>>

AddParameter(tensor, requires_grad) ==
    /\ Alive
    /\ nodes' = Append(nodes, Parameter(tensor, requires_grad))
    /\ call' = [op |-> "add_parameter", arg |-> 0]
    /\ ret' = Returned("ok", NoError, NoTensor, Len(nodes))
    /\ streak' = NoStreak
    /\ UNCHANGED <<gradients, touched, contributed, nback>>

ApplyOp(op, inputs) ==
    /\ Alive
    /\ nodes' = Append(nodes, Operation(op, inputs))
    /\ call' = [op |-> "apply_op", arg |-> 0]
    /\ ret' = Returned("ok", NoError, NoTensor, Len(nodes))
    /\ streak' = NoStreak
    /\ UNCHANGED <<gradients, touched, contributed, nback>>

Forward(node_idx) ==
    /\ Alive
    /\ \E r \in {forward(nodes, node_idx)} :
           ret' = Returned(r.st, r.err, IF r.st = "ok" THEN r.val ELSE NoTensor, 0)
    /\ call' = [op |-> "forward", arg |-> node_idx]
    /\ streak' = NoStreak
    /\ UNCHANGED <<nodes, gradients, touched, contributed, nback>>

Backward(output_idx) ==
    /\ Alive
    /\ \E run \in {backward(nodes, gradients, output_idx)} :
           /\ gradients' = run.grads
           /\ ret' = Returned(run.st, run.err, NoTensor, 0)
           /\ touched' = run.touched
           /\ contributed' = contributed \cup run.touched
           /\ nback' = IF run.touched = {} THEN nback ELSE nback + 1
           /\ streak' = IF run.st # "ok" THEN NoStreak
                        ELSE IF DOMAIN gradients = {}
                        THEN [o |-> output_idx, k |-> 1, cleared |-> touched # {}]
                        ELSE IF streak.k >= 1 /\ streak.o = output_idx
                        THEN [streak EXCEPT !.k = @ + 1]
                        ELSE NoStreak
    /\ call' = [op |-> "backward", arg |-> output_idx]
    /\ UNCHANGED nodes

ZeroGrad ==
    /\ Alive
    /\ gradients' = zero_grad(gradients)
    /\ call' = [op |-> "zero_grad", arg |-> 0]
    /\ ret' = Returned("ok", NoError, NoTensor, 0)
    /\ contributed' = {}
    /\ nback' = 0
    /\ streak' = NoStreak
    /\ UNCHANGED <<nodes, touched>>

(* On success the caller holds &mut Tensor and may store any tensor. *)
GetParameterMut(node_idx, tensor) ==
    /\ Alive
    /\ \E r \in {get_parameter_mut(nodes, node_idx)} :
           /\ ret' = Returned(r.st, r.err, NoTensor, 0)
           /\ nodes' = IF r.st = "ok"
                       THEN [nodes EXCEPT ![node_idx + 1].t = tensor]
                       ELSE nodes
    /\ call' = [op |-> "get_parameter_mut", arg |-> node_idx]
    /\ streak' = NoStreak
    /\ UNCHANGED <<gradients, touched, contributed, nback>>

(* The caller: any operation with any argument, within the bounds. *)
CanAdd == Len(nodes) < MaxNodes

CanBackward == nback < MaxBackward

Next ==
    \/ \E t \in InputTensors : CanAdd /\ AddInput(t)
    \/ \E t \in ParamTensors, rg \in BOOLEAN : CanAdd /\ AddParameter(t, rg)
    \/ \E inputs \in IndexLists : CanAdd /\ ApplyOp(AddOp, inputs)
    \/ \E n \in NodeArgs : Forward(n)
    \/ \E o \in NodeArgs : CanBackward /\ Backward(o)
    \/ ZeroGrad
    \/ \E n \in NodeArgs, t \in ParamTensors : GetParameterMut(n, t)

Spec == Init /\ [][Next]_vars

(* A caller that builds broadcasting graphs: a [1]-shaped parameter added  *)
(* to inputs of shapes [2] and [3].                                        *)
MaxNodesB == 5

MaxIdxB == 2

IndexListsB == {<<i, j>> : i \in 0..MaxIdxB, j \in 0..MaxIdxB}

CanAddB == Len(nodes) < MaxNodesB

NextBroadcast ==
    \/ \E t \in {T2, T3} : CanAddB /\ AddInput(t)
    \/ CanAddB /\ AddParameter(T1, TRUE)
    \/ \E inputs \in IndexListsB : CanAddB /\ inputs[1] < inputs[2] /\ ApplyOp(AddOp, inputs)
    \/ \E o \in 0..MaxNodesB : CanBackward /\ Backward(o)
    \/ ZeroGrad

SpecBroadcast == Init /\ [][NextBroadcast]_vars

(* A caller that builds graphs over Relu, Add and an Op of its own, lists  *)
(* earlier nodes only, reads values through forward and get_tensor and     *)
(* stores new values in its parameters.                                    *)
MaxNodesO == 4

MaxGrads == 2

MaxBackwardO == 1

T1n == Tensor_new(<<0 - 3>>, <<1>>).val

EarlierNodes == 0..(Len(nodes) - 1)

CanAddO == Len(nodes) < MaxNodesO

GetTensor(node_idx) ==
    /\ Alive
    /\ \E r \in {get_tensor(nodes, node_idx)} :
           ret' = Returned(r.st, r.err, IF r.st = "ok" THEN r.val ELSE NoTensor, 0)
    /\ call' = [op |-> "get_tensor", arg |-> node_idx]
    /\ streak' = NoStreak
    /\ UNCHANGED <<nodes, gradients, touched, contributed, nback>>

NextOps ==
    \/ CanAddO /\ AddInput(T2)
    \/ CanAddO /\ AddParameter(T1, TRUE)
    \/ \E i \in EarlierNodes : CanAddO /\ ApplyOp(ReluOp, <<i>>)
    \/ \E i, j \in EarlierNodes : CanAddO /\ i < j /\ ApplyOp(AddOp, <<i, j>>)
    \/ \E i \in EarlierNodes, g \in 1..MaxGrads : CanAddO /\ ApplyOp(CallerOp(g), <<i>>)
    \/ \E n \in 0..MaxNodesO : Forward(n)
    \/ \E n \in 0..MaxNodesO : GetTensor(n)
    \/ \E o \in 0..MaxNodesO : nback < MaxBackwardO /\ Backward(o)
    \/ \E n \in EarlierNodes : GetParameterMut(n, T1n)

SpecOps == Init /\ [][NextOps]_vars

(***************************************************************************)
(* A caller of the ops themselves: one forward call on a pair of operands  *)
(* of the same shape, then one invert call on its output.  call.arg holds  *)
(* the arguments of the call, ret its result.                              *)
(***************************************************************************)
MaxVal == 2

MaxKnown == 3

MaxSolve == 2

OperandShapes == {<<2>>, <<1, 2>>}

Operands ==
    {Tensor_new(<<x, y>>, s).val : x \in 0..MaxVal, y \in 0..MaxVal, s \in OperandShapes}

(* a / b is NaN or an integer in every element. *)
ExactDivide(a, b) ==
    \A i \in DOMAIN a.data : b.data[i] = 0 \/ a.data[i] % b.data[i] = 0

InvertibleOps == {AddOp, SubtractOp, MultiplyOp, DivideOp, LogOp}

OperandLists(op) ==
    IF op = LogOp THEN {<<ones(s).val>> : s \in OperandShapes}
    ELSE {<<a, b>> \in Operands \X Operands :
            a.shape = b.shape /\ (op = DivideOp => ExactDivide(a, b))}

(* known: &[Option<&Tensor>], entry i holding operand i where present. *)
Known(inputs, present) ==
    [i \in DOMAIN present |->
       IF present[i] THEN {inputs[IF i <= Len(inputs) THEN i ELSE 1]} ELSE {}]

OpForward(op, inputs) ==
    /\ call.op = "new"
    /\ \E r \in {Op_forward(op, inputs)} :
           ret' = Returned(r.st, r.err, IF r.st = "ok" THEN r.val ELSE NoTensor, 0)
    /\ call' = [op |-> "op_forward", arg |-> [op |-> op, inputs |-> inputs]]
    /\ UNCHANGED <<nodes, gradients, touched, contributed, streak, nback>>

OpInvert(present, solve_for) ==
    /\ call.op = "op_forward"
    /\ ret.st = "ok"
    /\ \E known \in {Known(call.arg.inputs, present)} :
           /\ \E r \in {Op_invert(call.arg.op, ret.t, known, solve_for)} :
                  ret' = Returned(r.st, r.err, IF r.st = "ok" THEN r.val ELSE NoTensor, 0)
           /\ call' = [op |-> "op_invert",
                       arg |-> [op |-> call.arg.op, inputs |-> call.arg.inputs,
                                output |-> ret.t, known |-> known,
                                solve_for |-> solve_for]]
    /\ UNCHANGED <<nodes, gradients, touched, contributed, streak, nback>>

NextInvert ==
    \/ \E op \in InvertibleOps : \E inputs \in OperandLists(op) : OpForward(op, inputs)
    \/ \E n \in 0..MaxKnown : \E present \in [1..n -> BOOLEAN], s \in 0..MaxSolve :
           OpInvert(present, s)

SpecInvert == Init /\ [][NextInvert]_vars

(***************************************************************************)
(* A caller that bypasses the graph: one forward or backward call of a     *)
(* catalog op on any number of inputs.  ret.t holds the value returned:    *)
(* the tensor of forward, the gradient list of backward.                   *)
(***************************************************************************)
MaxInputs == 3

Catalog ==
    {AddOp, SubtractOp, MultiplyOp, DivideOp, MatMulOp, ReluOp, SumOp({}), SumOp({0}),
     LogOp, SoftmaxOp}

UnitTensors == {ones(<<1>>).val, ones(<<1, 1>>).val}

InputLists == UNION {[1..n -> UnitTensors] : n \in 0..MaxInputs}

OpBackward(op, inputs, grad_output) ==
    /\ call.op = "new"
    /\ \E r \in {Op_backward(op, inputs, grad_output)} :
           ret' = Returned(r.st, r.err, r.val, 0)
    /\ call' = [op |-> "op_backward",
                arg |-> [op |-> op, inputs |-> inputs, grad_output |-> grad_output]]
    /\ UNCHANGED <<nodes, gradients, touched, contributed, streak, nback>>

NextOpArity ==
    \/ \E op \in Catalog, inputs \in InputLists : OpForward(op, inputs)
    \/ \E op \in Catalog, inputs \in InputLists, g \in UnitTensors :
           OpBackward(op, inputs, g)

SpecOpArity == Init /\ [][NextOpArity]_vars

(***************************************************************************)
(* A caller of the tensor functions: one call of a constructor, of         *)
(* broadcast_shapes, of add, subtract or multiply, of matmul or of sum.    *)
(* ret.t holds the value returned: a tensor, or the shape returned by      *)
(* broadcast_shapes.                                                       *)
(***************************************************************************)
MaxRank == 2

MaxDim == 2

MaxData == 4

(* The shapes a tensor can have: at least one dimension, any size. *)
Shapes == UNION {[1..r -> 0..MaxDim] : r \in 1..MaxRank}

(* The tensor of a shape holding scale, 2 * scale, ... in buffer order. *)
TensorOf(shape, scale) ==
    Tensor_new([i \in 1..product(shape) |-> scale * i], shape).val

TensorNew(data, shape) ==
    /\ call.op = "new"
    /\ \E r \in {Tensor_new(data, shape)} : ret' = Returned(r.st, r.err, r.val, 0)
    /\ call' = [op |-> "Tensor::new", arg |-> [data |-> data, shape |-> shape]]
    /\ UNCHANGED <<nodes, gradients, touched, contributed, streak, nback>>

TensorFilled(ctor, shape) ==
    /\ call.op = "new"
    /\ \E r \in {IF ctor = "zeros" THEN zeros(shape) ELSE ones(shape)} :
           ret' = Returned(r.st, r.err, r.val, 0)
    /\ call' = [op |-> ctor, arg |-> [shape |-> shape]]
    /\ UNCHANGED <<nodes, gradients, touched, contributed, streak, nback>>

BroadcastShapes(a, b) ==
    /\ call.op = "new"
    /\ \E r \in {broadcast_shapes(a, b)} : ret' = Returned(r.st, r.err, r.val, 0)
    /\ call' = [op |-> "broadcast_shapes", arg |-> [a |-> a, b |-> b]]
    /\ UNCHANGED <<nodes, gradients, touched, contributed, streak, nback>>

Elementwise(op, a, b) ==
    /\ call.op = "new"
    /\ \E r \in {elementwise_op(a, b, op)} : ret' = Returned(r.st, r.err, r.val, 0)
    /\ call' = [op |-> "elementwise_op", arg |-> [op |-> op, a |-> a, b |-> b]]
    /\ UNCHANGED <<nodes, gradients, touched, contributed, streak, nback>>

MatMul(a, b) ==
    /\ call.op = "new"
    /\ \E r \in {matmul(a, b)} : ret' = Returned(r.st, r.err, r.val, 0)
    /\ call' = [op |-> "matmul", arg |-> [a |-> a, b |-> b]]
    /\ UNCHANGED <<nodes, gradients, touched, contributed, streak, nback>>

Sum(t, dim) ==
    /\ call.op = "new"
    /\ \E r \in {sum(t, dim)} : ret' = Returned(r.st, r.err, r.val, 0)
    /\ call' = [op |-> "sum", arg |-> [t |-> t, dim |-> dim]]
    /\ UNCHANGED <<nodes, gradients, touched, contributed, streak, nback>>

Transpose(t) ==
    /\ call.op = "new"
    /\ \E r \in {transpose_2d(t)} : ret' = Returned(r.st, r.err, r.val, 0)
    /\ call' = [op |-> "transpose_2d", arg |-> [t |-> t]]
    /\ UNCHANGED <<nodes, gradients, touched, contributed, streak, nback>>

(* transpose_2d applied to the tensor the first call returned. *)
TransposeAgain ==
    /\ call.op = "transpose_2d"
    /\ ret.st = "ok"
    /\ \E r \in {transpose_2d(ret.t)} : ret' = Returned(r.st, r.err, r.val, 0)
    /\ call' = [op |-> "transpose_2d twice", arg |-> [t |-> call.arg.t, once |-> ret.t]]
    /\ UNCHANGED <<nodes, gradients, touched, contributed, streak, nback>>

UnravelIndex(flat, shape) ==
    /\ call.op = "new"
    /\ \E r \in {unravel_index(flat, shape)} : ret' = Returned(r.st, r.err, r.val, 0)
    /\ call' = [op |-> "unravel_index", arg |-> [flat |-> flat, shape |-> shape]]
    /\ UNCHANGED <<nodes, gradients, touched, contributed, streak, nback>>

RavelIndex(idx, shape) ==
    /\ call.op = "new"
    /\ \E r \in {ravel_index(idx, shape)} : ret' = Returned(r.st, r.err, r.val, 0)
    /\ call' = [op |-> "ravel_index", arg |-> [idx |-> idx, shape |-> shape]]
    /\ UNCHANGED <<nodes, gradients, touched, contributed, streak, nback>>

(* ravel_index applied to the coordinate unravel_index returned. *)
RavelBack ==
    /\ call.op = "unravel_index"
    /\ ret.st = "ok"
    /\ \E r \in {ravel_index(ret.t, call.arg.shape)} :
           ret' = Returned(r.st, r.err, r.val, 0)
    /\ call' = [op |-> "ravel_index of unravel_index",
                arg |-> [flat |-> call.arg.flat, shape |-> call.arg.shape, idx |-> ret.t]]
    /\ UNCHANGED <<nodes, gradients, touched, contributed, streak, nback>>

(* unravel_index applied to the offset ravel_index returned. *)
UnravelBack ==
    /\ call.op = "ravel_index"
    /\ ret.st = "ok"
    /\ \E r \in {unravel_index(ret.t, call.arg.shape)} :
           ret' = Returned(r.st, r.err, r.val, 0)
    /\ call' = [op |-> "unravel_index of ravel_index",
                arg |-> [idx |-> call.arg.idx, shape |-> call.arg.shape, flat |-> ret.t]]
    /\ UNCHANGED <<nodes, gradients, touched, contributed, streak, nback>>

NextTensor ==
    \/ \E n \in 0..MaxData, shape \in Shapes \cup {<<>>} :
           TensorNew([i \in 1..n |-> i], shape)
    \/ \E ctor \in {"zeros", "ones"}, shape \in Shapes \cup {<<>>} :
           TensorFilled(ctor, shape)
    \/ \E a \in Shapes, b \in Shapes : BroadcastShapes(a, b)
    \/ \E op \in {f_add, f_sub, f_mul}, a \in Shapes, b \in Shapes :
           Elementwise(op, TensorOf(a, 1), TensorOf(b, 10))
    \/ \E a \in Shapes, b \in Shapes : MatMul(TensorOf(a, 1), TensorOf(b, 10))
    \/ \E shape \in Shapes, dim \in {{}} \cup {{axis} : axis \in 0..MaxRank} :
           Sum(TensorOf(shape, 1), dim)
    \/ \E shape \in Shapes : Transpose(TensorOf(shape, 1))
    \/ TransposeAgain
    \/ \E shape \in Shapes \cup {<<>>} : \E flat \in 0..product(shape) :
           UnravelIndex(flat, shape)
    \/ \E r \in 0..MaxRank : \E idx \in [1..r -> 0..MaxDim], shape \in Shapes \cup {<<>>} :
           RavelIndex(idx, shape)
    \/ RavelBack
    \/ UnravelBack

SpecTensor == Init /\ [][NextTensor]_vars

(***************************************************************************)
(* A caller of manifest_hash: it hashes a manifest, then changes the value *)
(* of one field of a clone and hashes the clone.                           *)
(***************************************************************************)
MaxSeed == 1

MaxStr == 1

(* The strings "", "a", "aa", ... *)
Strings == {[i \in 1..n |-> 97] : n \in 0..MaxStr}

RunManifest ==
    [crate_version : Strings,
     git_commit : {{}} \cup {{c} : c \in Strings},
     seed : {{}} \cup {{10 * n} : n \in 0..MaxSeed},
     config_hash : Strings,
     input_hash : Strings,
     feature_schema_hash : Strings]

ManifestHash(m) ==
    /\ call.op = "new"
    /\ ret' = Returned("ok", NoError, manifest_hash(m), 0)
    /\ call' = [op |-> "manifest_hash", arg |-> m]
    /\ UNCHANGED <<nodes, gradients, touched, contributed, streak, nback>>

ChangeField(field, value) ==
    /\ call.op = "manifest_hash"
    /\ call.arg[field] # value
    /\ \E m2 \in {[call.arg EXCEPT ![field] = value]} :
           /\ ret' = Returned("ok", NoError, manifest_hash(m2), 0)
           /\ call' = [op |-> "manifest_hash of changed clone",
                       arg |-> [m1 |-> call.arg, m2 |-> m2, field |-> field,
                                hash1 |-> ret.t]]
    /\ UNCHANGED <<nodes, gradients, touched, contributed, streak, nback>>

NextManifest ==
    \/ \E m \in RunManifest : ManifestHash(m)
    \/ \E field \in {"crate_version", "git_commit", "seed", "config_hash", "input_hash",
                      "feature_schema_hash"} :
           \E value \in {m[field] : m \in RunManifest} : ChangeField(field, value)

SpecManifest == Init /\ [][NextManifest]_vars

(***************************************************************************)
(* Properties of the graph.                                                *)
(***************************************************************************)
NodeIds == 0..(Len(nodes) - 1)

IsOperation(n) == n \in NodeIds /\ nodes[n + 1].kind = "Operation"

IsTrainable(n) ==
    n \in NodeIds /\ nodes[n + 1].kind = "Parameter" /\ nodes[n + 1].requires_grad

InputSet(n) == {nodes[n + 1].inputs[k] : k \in 1..Len(nodes[n + 1].inputs)}

(* The nodes a traversal from n can come to, n included. *)
RECURSIVE Closure(_)
Closure(S) ==
    LET more == S \cup UNION {InputSet(m) : m \in {x \in S : IsOperation(x)}}
    IN  IF more = S THEN S ELSE Closure(more)

ReachableFrom(n) == Closure({n})

(* The number of input-slot paths from node n down to node p, on a DAG. *)
RECURSIVE PathCount(_, _)
PathCount(n, p) ==
    IF n = p THEN 1
    ELSE IF IsOperation(n)
    THEN sum_seq([k \in 1..Len(nodes[n + 1].inputs) |-> PathCount(nodes[n + 1].inputs[k], p)])
    ELSE 0

Scaled(t, c) == [t EXCEPT !.data = [i \in 1..Len(t.data) |-> c * t.data[i]]]

(* Every operation below o is an Add and all values below o have one shape. *)
SameShapeAdds(o) ==
    /\ \A n \in ReachableFrom(o) : IsOperation(n) => nodes[n + 1].op = AddOp
    /\ \A n, m \in ReachableFrom(o) :
          forward(nodes, n).val.shape = forward(nodes, m).val.shape

(* C1: after one successful backward(o) from an empty gradient map on a DAG *)
(* of same-shape Adds, every trainable parameter holds ones times the      *)
(* number of input-slot paths from o down to it (2 for both inputs of one  *)
(* Add), and every trainable parameter with a path holds a gradient.       *)
GradientCountsPaths ==
    (streak.k = 1 /\ SameShapeAdds(streak.o)) =>
        \A p \in NodeIds : IsTrainable(p) =>
            /\ PathCount(streak.o, p) > 0 => p \in DOMAIN gradients
            /\ p \in DOMAIN gradients =>
                  gradients[p] = Scaled(ones_like(nodes[p + 1].t), PathCount(streak.o, p))

SharedParameterWitness ==
    /\ streak.k = 1
    /\ SameShapeAdds(streak.o)
    /\ \E p \in NodeIds :
          /\ IsTrainable(p)
          /\ PathCount(streak.o, p) = 4
          /\ gradients[p].data = <<4, 4>>

(* C2: every Operation node's input indices are less than its own index. *)
InputsPrecedeNode ==
    \A n \in NodeIds : IsOperation(n) => \A i \in InputSet(n) : i < n

(* C3: k successful backward(o) calls in a row from an empty gradient map  *)
(* leave every trainable parameter below o (o itself, whose gradient is    *)
(* the seed, set aside) with k times the gradient of a single backward(o)  *)
(* from an empty map.                                                      *)
RepeatedBackwardScales ==
    streak.k >= 1 =>
        \A p \in ReachableFrom(streak.o) \ {streak.o} : IsTrainable(p) =>
            /\ p \in DOMAIN gradients
            /\ gradients[p] =
                  Scaled(backward(nodes, EmptyMap, streak.o).grads[p], streak.k)

(* C4 as stated: a gradient entry exists only for a node written by the    *)
(* most recent backward call.                                              *)
OnlyMostRecentBackward == DOMAIN gradients \subseteq touched

(* C4 amended: a gradient entry exists only for a node written (seed or    *)
(* accumulation) by some backward call since the last zero_grad, or since  *)
(* construction when zero_grad was never called.                           *)
OnlySinceZeroGrad == DOMAIN gradients \subseteq contributed

EarlierBackwardEntryWitness ==
    /\ call.op = "backward"
    /\ \E n \in DOMAIN gradients : n \notin touched /\ n \in contributed

(* C5: no gradient entry for an Input node, and one for a Parameter only   *)
(* when it requires grad.                                                  *)
NoGradientForFixedNodes ==
    \A n \in DOMAIN gradients :
        /\ n \in NodeIds
        /\ nodes[n + 1].kind # "Input"
        /\ nodes[n + 1].kind = "Parameter" => nodes[n + 1].requires_grad

(* C6: when forward(o) succeeds, backward(o) never reaches the accumulation *)
(* add with incompatible shapes (the expect never fails).                  *)
NoAccumulationAbort ==
    (call.op = "backward" /\ forward(nodes, call.arg).st = "ok") => ret.st # "panic"

(* C7: after a successful backward(o) the gradient of o has the shape of   *)
(* forward(o) and holds 1 everywhere, whatever the map held before.        *)
SeedIsOnes ==
    (call.op = "backward" /\ ret.st = "ok") =>
        /\ call.arg \in DOMAIN gradients
        /\ gradients[call.arg].shape = forward(nodes, call.arg).val.shape
        /\ gradients[call.arg].data = [i \in 1..Len(gradients[call.arg].data) |-> 1]
        /\ Len(gradients[call.arg].data) = product(gradients[call.arg].shape)

(* o had an accumulated gradient from an earlier backward through a        *)
(* consumer c of o, whose entry is still in the map.                       *)
SeedReplacesAccumulatedWitness ==
    /\ call.op = "backward"
    /\ ret.st = "ok"
    /\ node_requires_grad(nodes, call.arg)
    /\ \E c \in (DOMAIN gradients) \ touched :
          /\ IsOperation(c)
          /\ nodes[c + 1].inputs = <<call.arg, call.arg>>
          /\ c # call.arg

(* C8: forward(n) returns an index error when n is no node or when an      *)
(* Operation node below n lists an index that is no node; otherwise it     *)
(* returns a tensor or another typed error.                                *)
ListsMissingNode(n) ==
    \E m \in ReachableFrom(n) : IsOperation(m) /\ \E i \in InputSet(m) : i \notin NodeIds

ForwardIndexErrorOrValue ==
    call.op = "forward" =>
        /\ ret.st \in {"ok", "err"}
        /\ (call.arg \notin NodeIds \/ ListsMissingNode(call.arg))
              => (ret.st = "err" /\ ret.err = IndexError)
        /\ ~(call.arg \notin NodeIds \/ ListsMissingNode(call.arg))
              => (ret.st = "ok" \/ ret.err # IndexError)

(* C9: get_parameter_mut(n) succeeds exactly for a Parameter that requires *)
(* grad; every other call fails with invalid-operation and leaves the      *)
(* nodes and the gradient map as they were.                                *)
GetParameterMutStep ==
    call'.op = "get_parameter_mut" =>
        /\ ret'.st = "ok" <=> IsTrainable(call'.arg)
        /\ ret'.st # "ok" =>
              /\ ret'.st = "err"
              /\ ret'.err = InvalidOperation
              /\ nodes' = nodes
              /\ gradients' = gradients

GetParameterMutContract == [][GetParameterMutStep]_vars

FrozenParameterRefusedWitness ==
    /\ call.op = "get_parameter_mut"
    /\ ret.st = "err"
    /\ call.arg \in NodeIds
    /\ nodes[call.arg + 1].kind = "Parameter"
    /\ ~nodes[call.arg + 1].requires_grad
    /\ DOMAIN gradients # {}

(* C10: zero_grad empties the gradient map and leaves the nodes unchanged, *)
(* and a successful backward(o) on a map emptied by zero_grad gives the    *)
(* gradient map that backward(o) gives on a graph that never had any.      *)
ZeroGradStep ==
    /\ call'.op = "zero_grad" =>
          /\ \A n \in NodeArgs : get_gradient(gradients', n) = {}
          /\ DOMAIN gradients' = {}
          /\ nodes' = nodes
    /\ (streak'.k = 1 /\ streak'.cleared) =>
          gradients' = backward(nodes', EmptyMap, streak'.o).grads

ZeroGradResets == [][ZeroGradStep]_vars

BackwardAfterZeroGradWitness ==
    /\ streak.k = 1
    /\ streak.cleared
    /\ Cardinality(DOMAIN gradients) >= 2

(* C11: add_input, add_parameter and apply_op return the number of nodes   *)
(* present before the call and append exactly one node behind the others;  *)
(* forward, backward, zero_grad and get_parameter_mut keep the number and  *)
(* order of the nodes and every node's kind, requires_grad flag and input  *)
(* list (get_gradient only reads the map).                                 *)
Appends == {"add_input", "add_parameter", "apply_op"}

SameIdentity(old, new) ==
    /\ new.kind = old.kind
    /\ new.requires_grad = old.requires_grad
    /\ new.inputs = old.inputs
    /\ new.op = old.op

AppendOnlyStep ==
    /\ call'.op \in Appends =>
          /\ ret'.st = "ok"
          /\ ret'.idx = Len(nodes)
          /\ Len(nodes') = Len(nodes) + 1
          /\ SubSeq(nodes', 1, Len(nodes)) = nodes
    /\ call'.op \notin Appends =>
          /\ Len(nodes') = Len(nodes)
          /\ \A n \in 1..Len(nodes) : SameIdentity(nodes[n], nodes'[n])

NodesAppendOnly == [][AppendOnlyStep]_vars

(* A third node appended after a backward wrote gradients, in a graph that *)
(* holds a trainable parameter.                                            *)
AppendAfterUseWitness ==
    /\ call.op = "apply_op"
    /\ ret.idx = 2
    /\ DOMAIN gradients # {}
    /\ \E n \in NodeIds : IsTrainable(n) /\ nodes[n + 1].t = T1

(* No node that a traversal from o comes to is missing or lies below itself. *)
Acyclic(o) ==
    \A m \in ReachableFrom(o) :
        /\ m \in NodeIds
        /\ IsOperation(m) => m \notin Closure(InputSet(m))

Positions(sorted, n) == {i \in 1..Len(sorted) : sorted[i] = n}

Ordered(o, sorted) ==
    /\ {sorted[i] : i \in 1..Len(sorted)} = ReachableFrom(o)
    /\ \A n \in ReachableFrom(o) : Cardinality(Positions(sorted, n)) = 1
    /\ \A i \in 1..Len(sorted) : IsOperation(sorted[i]) =>
          \A n \in InputSet(sorted[i]) : \A j \in Positions(sorted, n) : j < i
    /\ sorted # <<>>
    /\ sorted[Len(sorted)] = o

(* The run of backward's loop over sorted_nodes.iter().rev() when it comes *)
(* to position stop, positions i down to stop + 1 being done.              *)
RECURSIVE WalkedTo(_, _, _, _)
WalkedTo(run, sorted, i, stop) ==
    IF i = stop \/ run.st # "ok" THEN run
    ELSE WalkedTo(backward_node(nodes, run, sorted[i]), sorted, i - 1, stop)

Seeded(o) ==
    [st |-> "ok", err |-> NoError,
     grads |-> seed(gradients, o, ones_like(forward(nodes, o).val)),
     touched |-> {o}]

(* When the walk comes to a node, the node's gradient is already the one   *)
(* the whole backward(o) leaves: no contribution to it is still to come.   *)
ContributionsFirst(o, sorted, final) ==
    final.st = "ok" =>
        \A i \in 1..Len(sorted) :
            \E before \in {WalkedTo(Seeded(o), sorted, Len(sorted), i)} :
                /\ before.st = "ok"
                /\ (sorted[i] \in DOMAIN before.grads) <=> (sorted[i] \in DOMAIN final.grads)
                /\ sorted[i] \in DOMAIN final.grads =>
                      before.grads[sorted[i]] = final.grads[sorted[i]]

(* C24: on a DAG, topological_sort(o) holds exactly the nodes reachable    *)
(* from o, each once, every Operation behind all of its inputs, and o      *)
(* last; so backward's reverse walk comes to a node only after every       *)
(* reachable operation that consumes it has added its contribution.        *)
TopologicalOrder ==
    \A o \in NodeIds : Acyclic(o) =>
        /\ topological_sort(nodes, o).st = "ok"
        /\ Ordered(o, topological_sort(nodes, o).val)
        /\ ContributionsFirst(o, topological_sort(nodes, o).val,
                              backward(nodes, gradients, o))

(* backward(2) over a parameter consumed by node 1 and, with node 1, by    *)
(* node 2: the walk 2, 1, 0 gathers three contributions for node 0.        *)
SharedInputLastWitness ==
    /\ call.op = "backward"
    /\ call.arg = 2
    /\ ret.st = "ok"
    /\ Acyclic(2)
    /\ topological_sort(nodes, 2).val = <<0, 1, 2>>
    /\ nodes[2].inputs = <<0, 0>>
    /\ nodes[3].inputs = <<0, 1>>
    /\ IsTrainable(0)
    /\ gradients[0].data = <<3, 3>>

(* C25: after a successful backward(o) started on an empty gradient map,   *)
(* the nodes with a gradient entry are o and the nodes reachable from o    *)
(* that are an Operation or a Parameter that requires grad, and no other.  *)
GradientEntriesExact ==
    streak.k = 1 =>
        DOMAIN gradients =
            {streak.o} \cup {n \in ReachableFrom(streak.o) : IsOperation(n) \/ IsTrainable(n)}

(* backward(2) over a trainable parameter and an input: entries for the    *)
(* operation and the parameter, none for the input.                        *)
InputLeftOutWitness ==
    /\ streak.k = 1
    /\ streak.o = 2
    /\ nodes[3].inputs = <<0, 1>>
    /\ IsTrainable(0)
    /\ nodes[2].kind = "Input"
    /\ DOMAIN gradients = {0, 2}

(* C26: after a successful backward(o) started on an empty gradient map,   *)
(* every stored gradient has the shape of forward of its node, the         *)
(* gradient of a broadcast operand included.                               *)
GradientShapesMatch ==
    streak.k = 1 =>
        \A n \in DOMAIN gradients :
            /\ forward(nodes, n).st = "ok"
            /\ gradients[n].shape = forward(nodes, n).val.shape

(* C27: on every graph built through add_input, add_parameter and         *)
(* apply_op with any index lists, forward(n) and backward(n) terminate,    *)
(* returning a value or an error.                                          *)
ForwardBackwardTerminate ==
    call.op \in {"forward", "backward"} => ret.st \in {"ok", "err"}

(* C28: whenever backward(o) returns an error, the gradient map is the     *)
(* same as before the call and the nodes are unchanged.                    *)
BackwardErrorStep ==
    (call'.op = "backward" /\ ret'.st = "err") =>
        /\ gradients' = gradients
        /\ nodes' = nodes

BackwardErrorKeepsState == [][BackwardErrorStep]_vars

(* The walk has a gradient for operation n, and the op's backward returns  *)
(* a number of gradients that is not the number of n's input indices.      *)
Miscounted(run, n) ==
    /\ n \in DOMAIN run.grads
    /\ IsOperation(n)
    /\ \E ins \in {forward_inputs(nodes, nodes[n + 1].inputs, {})} :
          /\ ins.st = "ok"
          /\ \E input_grads \in {Op_backward(nodes[n + 1].op, ins.val, run.grads[n])} :
                /\ input_grads.st = "ok"
                /\ Len(input_grads.val) # Len(nodes[n + 1].inputs)

MiscountStops(o, sorted) ==
    \A i \in 1..Len(sorted) :
        \E before \in {WalkedTo(Seeded(o), sorted, Len(sorted), i)} :
            (before.st = "ok" /\ Miscounted(before, sorted[i])) =>
                /\ ret'.st = "err"
                /\ ret'.err = InvalidOperation
                /\ gradients' = before.grads

(* C29: when the reverse walk of backward comes to an operation whose      *)
(* backward returns a number of gradients different from the number of     *)
(* the node's input indices, backward fails with invalid-operation and the *)
(* gradient map stays as it was when that operation was reached: none of   *)
(* the returned gradients is accumulated.                                  *)
WrongCountStep ==
    (call'.op = "backward" /\ forward(nodes, call'.arg).st = "ok") =>
        MiscountStops(call'.arg, topological_sort(nodes, call'.arg).val)

WrongGradientCountFails == [][WrongCountStep]_vars

(* backward came through a consumer to the caller's op c, which returned   *)
(* two gradients for its single, trainable input.                          *)
SurplusGradientWitness ==
    /\ call.op = "backward"
    /\ ret.st = "err"
    /\ ret.err = InvalidOperation
    /\ \E c \in ReachableFrom(call.arg) \ {call.arg} :
          /\ IsOperation(c)
          /\ nodes[c + 1].op = CallerOp(2)
          /\ c \in DOMAIN gradients
          /\ IsTrainable(nodes[c + 1].inputs[1])
          /\ nodes[c + 1].inputs[1] \notin DOMAIN gradients

(* The value of node n by the defining equations, for graphs whose stored  *)
(* tensors all have rank 1: the buffer of an Input or Parameter, the       *)
(* positive part for Relu, the sum with a one-element operand repeated for *)
(* Add, the first input for the caller's op.                               *)
RECURSIVE Value(_)
Value(n) ==
    LET node == nodes[n + 1]
        at(v, k) == IF Len(v) = 1 THEN v[1] ELSE v[k]
        positive(v) == [k \in 1..Len(v) |-> IF v[k] > 0 THEN v[k] ELSE 0]
        plus(a, b) == [k \in 1..Max(Len(a), Len(b)) |-> at(a, k) + at(b, k)]
    IN  CASE node.kind # "Operation" -> node.t.data
          [] node.kind = "Operation" /\ node.op = ReluOp -> positive(Value(node.inputs[1]))
          [] node.kind = "Operation" /\ node.op = AddOp ->
                 plus(Value(node.inputs[1]), Value(node.inputs[2]))
          [] node.kind = "Operation" /\ node.op.kind = "Caller" -> Value(node.inputs[1])

Reads == {"forward", "get_tensor"}

ReadStep ==
    call'.op \in Reads =>
        /\ nodes' = nodes
        /\ gradients' = gradients
        /\ call'.arg \notin NodeIds => (ret'.st = "err" /\ ret'.err = IndexError)
        /\ call'.arg \in NodeIds =>
              /\ ret'.st = "ok"
              /\ ret'.t.data = Value(call'.arg)
              /\ ret'.t.shape = <<Len(ret'.t.data)>>
        /\ (call.op \in Reads /\ call.arg = call'.arg) => ret' = ret

(* backward(o) of a Relu node o, started on an empty map, lets grad_output *)
(* through where the input of o is positive now.                           *)
ReluGateStep ==
    (streak'.k = 1 /\ nodes[streak'.o + 1].op = ReluOp) =>
        \E m \in {nodes[streak'.o + 1].inputs[1]} :
            node_requires_grad(nodes, m) =>
                /\ m \in DOMAIN gradients'
                /\ gradients'[m].data =
                       [k \in 1..Len(Value(m)) |-> IF Value(m)[k] > 0 THEN 1 ELSE 0]

(* C30: forward(n) and get_tensor(n) change neither the nodes nor the      *)
(* gradient map and return the recursive evaluation over the tensors the   *)
(* nodes hold now, so two reads of n in a row return the same, get_tensor  *)
(* returns what forward returns, and after get_parameter_mut stored a new  *)
(* value every read, and the re-evaluation of inputs inside backward, uses *)
(* the new value.                                                          *)
ForwardReadsCurrentValues == [][ReadStep /\ ReluGateStep]_vars

(* forward of a Relu node after its parameter was given a negative value. *)
ChangedParameterReadWitness ==
    /\ call.op = "forward"
    /\ call.arg \in NodeIds
    /\ nodes[call.arg + 1].op = ReluOp
    /\ IsTrainable(nodes[call.arg + 1].inputs[1])
    /\ nodes[nodes[call.arg + 1].inputs[1] + 1].t = T1n
    /\ ret.t.data = <<0>>

(***************************************************************************)
(* Properties of the invertible ops.                                       *)
(***************************************************************************)
(* The invert call of a round trip: known holds the other operand of the   *)
(* forward call and nothing at solve_for.                                  *)
RoundTrip ==
    /\ call.op = "op_invert"
    /\ Len(call.arg.inputs) = 2
    /\ call.arg.solve_for < 2
    /\ call.arg.known =
           Known(call.arg.inputs, [i \in 1..2 |-> i # call.arg.solve_for + 1])

Solved == call.arg.inputs[call.arg.solve_for + 1]

(* C12: for Add and Subtract, on same-shape operands of rank 1 or 2 and    *)
(* for both solve_for positions, invert of the forward output with only    *)
(* the other operand known returns the operand at solve_for, shape         *)
(* included.                                                               *)
AddSubtractRoundTrip ==
    (RoundTrip /\ call.arg.op \in {AddOp, SubtractOp}) =>
        /\ ret.st = "ok"
        /\ ret.t.data = Solved.data
        /\ ret.t.shape = Solved.shape

SubtractSecondOperandWitness ==
    /\ RoundTrip
    /\ call.arg.op = SubtractOp
    /\ call.arg.solve_for = 1
    /\ Len(call.arg.output.shape) = 2
    /\ call.arg.inputs[1].data = <<0, 2>>
    /\ call.arg.inputs[2].data = <<1, 2>>
    /\ ret.t = call.arg.inputs[2]

NoZero(t) == \A i \in DOMAIN t.data : t.data[i] # 0

OtherKnown == call.arg.inputs[(1 - call.arg.solve_for) + 1]

(* C13 as stated: for Multiply and Divide, on same-shape operands with no  *)
(* restriction but a zero-free divisor of Divide, and for both solve_for   *)
(* positions, invert of the forward output with only the other operand     *)
(* known returns the operand at solve_for.                                 *)
MultiplyDivideRoundTrip ==
    (/\ RoundTrip
     /\ call.arg.op \in {MultiplyOp, DivideOp}
     /\ call.arg.op = DivideOp => NoZero(call.arg.inputs[2])) =>
        /\ ret.st = "ok"
        /\ ret.t.data = Solved.data

(* C13, amended: the same round trip returns the operand at solve_for when *)
(* Multiply's known operand has no zero element, Divide's divisor has no   *)
(* zero element and, for solve_for = 1, Divide's dividend has none either. *)
MultiplyDivideRoundTripNonzero ==
    (/\ RoundTrip
     /\ call.arg.op \in {MultiplyOp, DivideOp}
     /\ call.arg.op = MultiplyOp => NoZero(OtherKnown)
     /\ call.arg.op = DivideOp =>
            /\ NoZero(call.arg.inputs[2])
            /\ call.arg.solve_for = 1 => NoZero(call.arg.inputs[1])) =>
        /\ ret.st = "ok"
        /\ ret.t.data = Solved.data
        /\ ret.t.shape = Solved.shape

MultiplyRecoversZeroWitness ==
    /\ RoundTrip
    /\ call.arg.op = MultiplyOp
    /\ call.arg.solve_for = 0
    /\ call.arg.inputs[1].data = <<0, 2>>
    /\ call.arg.inputs[2].data = <<1, 2>>
    /\ call.arg.output.data = <<0, 4>>
    /\ ret.t = call.arg.inputs[1]

InvertArity == IF call.arg.op = LogOp THEN 1 ELSE 2

PresentAtSolveFor == call.arg.known[call.arg.solve_for + 1] # {}

MissingElsewhere ==
    \E i \in DOMAIN call.arg.known :
        i # call.arg.solve_for + 1 /\ call.arg.known[i] = {}

(* The first failing check of an invert call, in the order: length of      *)
(* known, range of solve_for, value present at solve_for, value missing    *)
(* elsewhere; "None" when every check passes.                              *)
InvertFailure ==
    IF Len(call.arg.known) # InvertArity THEN "InputCountError"
    ELSE IF call.arg.solve_for >= InvertArity THEN "IndexError"
    ELSE IF PresentAtSolveFor THEN "InvalidOperation"
    ELSE IF MissingElsewhere THEN "InvalidOperation"
    ELSE "None"

(* C14: invert of Add, Subtract, Multiply, Divide (arity 2) and Log (arity *)
(* 1) passes validation exactly when len(known) is the arity, solve_for is *)
(* below it, known[solve_for] is absent and every other entry is present;  *)
(* otherwise it returns no tensor and the error of the first failing check *)
(* in the order input-count, index, invalid-operation.                     *)
InvertValidation ==
    call.op = "op_invert" =>
        /\ ret.st = "ok" <=>
               /\ Len(call.arg.known) = InvertArity
               /\ call.arg.solve_for < InvertArity
               /\ ~PresentAtSolveFor
               /\ ~MissingElsewhere
        /\ ret.st # "ok" =>
               /\ ret.st = "err"
               /\ ret.t = NoTensor
               /\ ret.err.type = InvertFailure

IndexBeforePresenceWitness ==
    /\ call.op = "op_invert"
    /\ call.arg.op = DivideOp
    /\ Len(call.arg.known) = 2
    /\ call.arg.known[1] # {}
    /\ call.arg.known[2] # {}
    /\ call.arg.solve_for = 2
    /\ ret.err = IndexError

(***************************************************************************)
(* Properties of direct op calls.                                          *)
(***************************************************************************)
OpArity(op) == IF op.kind \in {"Relu", "Sum", "Log", "Softmax"} THEN 1 ELSE 2

(* C15: forward and backward of every catalog op, called with a number of  *)
(* inputs other than the op's arity, fail with an input-count error        *)
(* carrying expected = arity and got = the number of inputs given.         *)
WrongArityFails ==
    (/\ call.op \in {"op_forward", "op_backward"}
     /\ Len(call.arg.inputs) # OpArity(call.arg.op)) =>
        /\ ret.st = "err"
        /\ ret.err = InputCountError(OpArity(call.arg.op), Len(call.arg.inputs))

(***************************************************************************)
(* Properties of the tensor functions.                                     *)
(***************************************************************************)
(* The number of elements of a shape, folded from its last dimension. *)
RECURSIVE ElementCount(_)
ElementCount(shape) ==
    IF shape = <<>> THEN 1
    ELSE shape[Len(shape)] * ElementCount(SubSeq(shape, 1, Len(shape) - 1))

WellFormed(t) ==
    /\ t.shape # <<>>
    /\ Len(t.data) = ElementCount(t.shape)
    /\ Len(t.strides) = Len(t.shape)
    /\ t.strides[Len(t.shape)] = 1
    /\ \A i \in 1..Len(t.shape) :
           t.strides[i] = ElementCount(SubSeq(t.shape, i + 1, Len(t.shape)))

ReturnsTensor ==
    /\ call.op \in {"Tensor::new", "zeros", "ones", "elementwise_op", "matmul", "sum"}
    /\ ret.st = "ok"

(* C16: Tensor::new returns a dimension-error for an empty shape whatever  *)
(* the data, a shape-mismatch with expected = product(shape) and got =     *)
(* len(data) when these differ, and a tensor otherwise; every tensor       *)
(* returned by a constructor or a tensor operation has a non-empty shape,  *)
(* len(data) = product(shape) and row-major strides ending in 1.           *)
TensorNewContract ==
    /\ call.op = "Tensor::new" =>
           IF call.arg.shape = <<>>
           THEN ret.st = "err" /\ ret.err = DimensionError
           ELSE IF Len(call.arg.data) # ElementCount(call.arg.shape)
           THEN /\ ret.st = "err"
                /\ ret.err = ShapeMismatch(ElementCount(call.arg.shape),
                                           Len(call.arg.data))
           ELSE /\ ret.st = "ok"
                /\ ret.t.data = call.arg.data
                /\ ret.t.shape = call.arg.shape
    /\ ReturnsTensor => WellFormed(ret.t)

TensorNewStridesWitness ==
    /\ call.op = "Tensor::new"
    /\ call.arg.shape = <<2, 2>>
    /\ call.arg.data = <<1, 2, 3, 4>>
    /\ ret.st = "ok"
    /\ ret.t.strides = <<2, 1>>

(* A shape right-aligned to rank r, missing leading dimensions being 1. *)
RightAligned(shape, r) ==
    [i \in 1..r |-> IF i > r - Len(shape) THEN shape[i - (r - Len(shape))] ELSE 1]

Conflicts(x, y) == {i \in DOMAIN x : x[i] # y[i] /\ x[i] # 1 /\ y[i] # 1}

BroadcastOf(x, y, out, err) ==
    IF Conflicts(x, y) = {}
    THEN /\ ret.st = "ok"
         /\ Len(out) = Len(x)
         /\ \A i \in DOMAIN x : out[i] = IF x[i] = 1 THEN y[i] ELSE x[i]
    ELSE /\ ret.st = "err"
         /\ err.type = "BroadcastError"
         /\ err.dim + 1 \in Conflicts(x, y)
         /\ \A i \in Conflicts(x, y) : err.dim + 1 <= i
         /\ err.shape1 = x[err.dim + 1]
         /\ err.shape2 = y[err.dim + 1]

(* C17: broadcast_shapes(a, b) succeeds exactly when every pair of         *)
(* right-aligned sizes is equal or contains a 1; the result has rank       *)
(* max(rank a, rank b), holds the common size or the size that is not 1,   *)
(* and is the same for (b, a); a failure carries the leftmost conflicting  *)
(* aligned position with a's and b's sizes there.                          *)
BroadcastShapesContract ==
    call.op = "broadcast_shapes" =>
        /\ BroadcastOf(RightAligned(call.arg.a, Max(Len(call.arg.a), Len(call.arg.b))),
                       RightAligned(call.arg.b, Max(Len(call.arg.a), Len(call.arg.b))),
                       ret.t, ret.err)
        /\ ret.st = "ok" => broadcast_shapes(call.arg.b, call.arg.a) = Ok(ret.t)
        /\ ret.st = broadcast_shapes(call.arg.b, call.arg.a).st

LeftmostConflictWitness ==
    /\ call.op = "broadcast_shapes"
    /\ call.arg.a = <<2, 0>>
    /\ call.arg.b = <<0, 2>>
    /\ ret.err = BroadcastError(0, 2, 0)

(* The elements right of dimension i of a shape: the row-major weight of   *)
(* coordinate i.                                                           *)
Weight(shape, i) == ElementCount(SubSeq(shape, i + 1, Len(shape)))

(* The coordinate of buffer position flat in a tensor of the given shape. *)
CoordOf(flat, shape) ==
    [i \in DOMAIN shape |-> (flat \div Weight(shape, i)) % shape[i]]

(* The coordinate c of the output seen from an operand: right-aligned to   *)
(* the operand's rank, index 0 in every dimension of size 1.               *)
OperandCoord(c, shape) ==
    [i \in DOMAIN shape |-> IF shape[i] = 1 THEN 0 ELSE c[i + (Len(c) - Len(shape))]]

OffsetOf(c, shape) == sum_seq([i \in DOMAIN shape |-> c[i] * Weight(shape, i)])

OperandOffset(t, flat, out_shape) ==
    OffsetOf(OperandCoord(CoordOf(flat, out_shape), t.shape), t.shape)

Applied(op, x, y) ==
    CASE op = f_add -> x + y
      [] op = f_sub -> x - y
      [] op = f_mul -> x * y

BroadcastShape(x, y) == [i \in DOMAIN x |-> IF x[i] = 1 THEN y[i] ELSE x[i]]

ElementwiseOf(op, a, b, r) ==
    Conflicts(RightAligned(a.shape, r), RightAligned(b.shape, r)) = {} =>
        /\ ret.st = "ok"
        /\ ret.t.shape = BroadcastShape(RightAligned(a.shape, r), RightAligned(b.shape, r))
        /\ Len(ret.t.data) = ElementCount(ret.t.shape)
        /\ \A k \in DOMAIN ret.t.data :
               /\ OperandOffset(a, k - 1, ret.t.shape) < Len(a.data)
               /\ OperandOffset(b, k - 1, ret.t.shape) < Len(b.data)
               /\ ret.t.data[k] =
                      Applied(op, a.data[OperandOffset(a, k - 1, ret.t.shape) + 1],
                                  b.data[OperandOffset(b, k - 1, ret.t.shape) + 1])

(* C18: for broadcast-compatible A and B, add, subtract and multiply       *)
(* return a tensor of the broadcast shape whose element at every output    *)
(* coordinate c is op(A[cA], B[cB]), cA and cB being c right-aligned to    *)
(* the operand's rank with index 0 in its size-1 dimensions; these operand *)
(* offsets lie inside the operands' buffers and no error is returned.      *)
ElementwiseBroadcasts ==
    call.op = "elementwise_op" =>
        ElementwiseOf(call.arg.op, call.arg.a, call.arg.b,
                      Max(Len(call.arg.a.shape), Len(call.arg.b.shape)))

ColumnPlusRowWitness ==
    /\ call.op = "elementwise_op"
    /\ call.arg.op = f_add
    /\ call.arg.a.shape = <<2, 1>>
    /\ call.arg.b.shape = <<2>>
    /\ ret.st = "ok"
    /\ ret.t.shape = <<2, 2>>
    /\ ret.t.data = <<11, 21, 12, 22>>

(* Element [i][j] of a rank-2 tensor. *)
Entry(t, i, j) == t.data[OffsetOf(<<i, j>>, t.shape) + 1]

(* The sum over p < k of A[i][p] * B[p][j]. *)
RECURSIVE Dot(_, _, _, _, _)
Dot(a, b, i, j, k) ==
    IF k = 0 THEN 0 ELSE Dot(a, b, i, j, k - 1) + Entry(a, i, k - 1) * Entry(b, k - 1, j)

MatMulOf(a, b) ==
    IF Len(a.shape) # 2 \/ Len(b.shape) # 2
    THEN ret.st = "err" /\ ret.err = DimensionError
    ELSE IF a.shape[2] # b.shape[1]
    THEN ret.st = "err" /\ ret.err = InvalidOperation
    ELSE /\ ret.st = "ok"
         /\ ret.t.shape = <<a.shape[1], b.shape[2]>>
         /\ Len(ret.t.data) = a.shape[1] * b.shape[2]
         /\ \A i \in 0..(a.shape[1] - 1), j \in 0..(b.shape[2] - 1) :
                Entry(ret.t, i, j) = Dot(a, b, i, j, a.shape[2])

(* C19: matmul(A, B) returns a dimension-error unless both operands have   *)
(* rank 2, invalid-operation when A is [m,k], B is [k2,n] and k # k2, and  *)
(* otherwise a tensor of shape [m,n] with out[i][j] the sum over p of      *)
(* A[i][p] * B[p][j].                                                      *)
MatMulContract == call.op = "matmul" => MatMulOf(call.arg.a, call.arg.b)

SquareProductWitness ==
    /\ call.op = "matmul"
    /\ call.arg.a.data = <<1, 2, 3, 4>>
    /\ call.arg.a.shape = <<2, 2>>
    /\ call.arg.b.data = <<10, 20, 30, 40>>
    /\ call.arg.b.shape = <<2, 2>>
    /\ ret.t.shape = <<2, 2>>
    /\ ret.t.data = <<70, 100, 150, 220>>

(* The sum of the elements of t at the buffer positions in S. *)
RECURSIVE SumOver(_, _)
SumOver(t, S) ==
    IF S = {} THEN 0
    ELSE SumOver(t, S \ {CHOOSE f \in S : TRUE}) + t.data[(CHOOSE f \in S : TRUE) + 1]

(* The buffer positions of t whose coordinate agrees with c on every axis  *)
(* but the given one.                                                      *)
AgreeingWith(t, c, axis) ==
    {f \in 0..(Len(t.data) - 1) :
        \A i \in DOMAIN t.shape : i # axis + 1 => CoordOf(f, t.shape)[i] = c[i]}

SumOf(t, dim) ==
    IF dim = {}
    THEN /\ ret.st = "ok"
         /\ ret.t.shape = <<1>>
         /\ ret.t.data = <<SumOver(t, 0..(Len(t.data) - 1))>>
    ELSE IF \E axis \in dim : axis >= Len(t.shape)
    THEN ret.st = "err" /\ ret.err = DimensionError
    ELSE \A axis \in dim :
           /\ ret.st = "ok"
           /\ ret.t.shape = [t.shape EXCEPT ![axis + 1] = 1]
           /\ Len(ret.t.data) = ElementCount(ret.t.shape)
           /\ \A k \in DOMAIN ret.t.data :
                  /\ CoordOf(k - 1, ret.t.shape)[axis + 1] = 0
                  /\ ret.t.data[k] =
                         SumOver(t, AgreeingWith(t, CoordOf(k - 1, ret.t.shape), axis))

(* C20: sum(None) returns a [1]-shaped tensor holding the total of all     *)
(* elements; sum(Some(axis)) returns a dimension-error when axis >= rank,  *)
(* and otherwise a tensor of the input shape with that axis set to 1 whose *)
(* element at each coordinate is the sum of the input elements agreeing    *)
(* with it on all other axes.                                              *)
SumContract == call.op = "sum" => SumOf(call.arg.t, call.arg.dim)

SumAlongRowsWitness ==
    /\ call.op = "sum"
    /\ call.arg.t.shape = <<2, 2>>
    /\ call.arg.t.data = <<1, 2, 3, 4>>
    /\ call.arg.dim = {0}
    /\ ret.t.shape = <<1, 2>>
    /\ ret.t.data = <<4, 6>>

TransposeOf(t) ==
    IF Len(t.shape) # 2 THEN ret.st = "err" /\ ret.err = DimensionError
    ELSE /\ ret.st = "ok"
         /\ ret.t.shape = <<t.shape[2], t.shape[1]>>
         /\ Len(ret.t.data) = t.shape[1] * t.shape[2]
         /\ \A i \in 0..(t.shape[1] - 1), j \in 0..(t.shape[2] - 1) :
                Entry(ret.t, j, i) = Entry(t, i, j)

(* C21: transpose_2d returns a dimension-error unless the tensor has rank  *)
(* 2; for shape [r,c] it returns shape [c,r] with out[j][i] = in[i][j];    *)
(* applied twice it returns a tensor equal to the original.                *)
TransposeContract ==
    /\ call.op = "transpose_2d" => TransposeOf(call.arg.t)
    /\ call.op = "transpose_2d twice" => ret.st = "ok" /\ ret.t = call.arg.t

TransposeTwiceWitness ==
    /\ call.op = "transpose_2d twice"
    /\ call.arg.t.shape = <<2, 2>>
    /\ call.arg.t.data = <<1, 2, 3, 4>>
    /\ call.arg.once.data = <<1, 3, 2, 4>>
    /\ ret.t.shape = <<2, 2>>
    /\ ret.t.data = <<1, 2, 3, 4>>

(***************************************************************************)
(* Properties of tensor_index.rs.                                          *)
(***************************************************************************)
OutOfRange(idx, shape) == \E i \in DOMAIN shape : idx[i] >= shape[i]

(* C22: ravel_index(unravel_index(flat, shape), shape) = flat for every    *)
(* flat below product(shape), and unravel_index(ravel_index(idx, shape),   *)
(* shape) = idx for every coordinate inside the shape; unravel_index       *)
(* returns an index error for flat >= product(shape); ravel_index returns  *)
(* a dimension error on a rank mismatch and an index error on a component  *)
(* out of range.                                                           *)
IndexRoundTrips ==
    /\ call.op = "unravel_index" =>
           IF call.arg.flat >= ElementCount(call.arg.shape)
           THEN ret.st = "err" /\ ret.err = IndexError
           ELSE ret.st = "ok" /\ ~OutOfRange(ret.t, call.arg.shape)
    /\ call.op = "ravel_index" =>
           IF Len(call.arg.idx) # Len(call.arg.shape)
           THEN ret.st = "err" /\ ret.err = DimensionError
           ELSE IF OutOfRange(call.arg.idx, call.arg.shape)
           THEN ret.st = "err" /\ ret.err = IndexError
           ELSE ret.st = "ok" /\ ret.t < ElementCount(call.arg.shape)
    /\ call.op = "ravel_index of unravel_index" =>
           ret.st = "ok" /\ ret.t = call.arg.flat
    /\ call.op = "unravel_index of ravel_index" =>
           ret.st = "ok" /\ ret.t = call.arg.idx

RavelOfUnravelWitness ==
    /\ call.op = "ravel_index of unravel_index"
    /\ call.arg.shape = <<2, 2>>
    /\ call.arg.flat = 2
    /\ call.arg.idx = <<1, 0>>
    /\ ret.t = 2

(***************************************************************************)
(* Properties of run_manifest.rs.                                          *)
(***************************************************************************)
(* C23: manifest_hash of the same RunManifest is always the same hash, and *)
(* changing the value of any one field, a change between an absent and a   *)
(* present optional value included, changes the string that is hashed and  *)
(* the hash.                                                               *)
OneFieldChangesHash ==
    /\ call.op = "manifest_hash" => ret.t = manifest_hash(call.arg)
    /\ call.op = "manifest_hash of changed clone" =>
           /\ serialized(call.arg.m2) # serialized(call.arg.m1)
           /\ ret.t # call.arg.hash1

====
